---------------------------- MODULE Spec2Model ----------------------------
(***************************************************************************)
(* Token lifecycle monitoring and trade-decision engine of Monitoring.py   *)
(* (lines 1-389): the orchestrator main(), the trade-stream listener       *)
(* listen_for_trades(), and the tick loop                                  *)
(* trade_logic_and_price_display_loop(); next to it the two programs that  *)
(* share files with it: the risk detector that writes the feed             *)
(* (risk_detector.py) and the main loop of SniperX V2 (lines 1378-1418)    *)
(* that reads the lock file.                                               *)
(*                                                                         *)
(* Units.  Time is counted in half seconds (the tick interval of 0.5 s is  *)
(* one unit; Sec(s) converts seconds).  Prices are fixed-point integers;   *)
(* the multiplicative thresholds (1.01, 1.15, 0.80 ...) are kept in        *)
(* hundredths and compared by cross-multiplication, the ratio thresholds   *)
(* (1.2, 1.1) in tenths.  An optional value (Python None or a value) is    *)
(* the empty sequence or a one-element sequence.                           *)
(***************************************************************************)
EXTENDS Integers, Sequences, FiniteSets, TLC

VARIABLES
    now,                         \* time.time(), in half seconds
    feed,                        \* rows of token_risk_analysis.csv
    trades_csv,                  \* rows appended to trades.csv
    main_pc,                     \* where main() is suspended
    tasks,                       \* the asyncio tasks created by main(), in creation order
    listener_task,               \* main()'s handle: index into tasks, 0 before the first session
    trader_task,                 \* main()'s handle: index into tasks, 0 before the first session
    g_last_known_sol_price,
    g_latest_trade_data,
    g_last_dex_price_fetch_time,
    g_current_mint_address,
    g_token_name,
    g_baseline_price_usd,
    g_buy_price_usd,
    g_highest_price_usd,
    g_token_monitor_start_time,
    g_trade_status,
    stagnation_timer_start,      \* local of the tick loop
    session,                     \* history: number of sessions started
    h_tick,                      \* history: what the latest tick of the session observed
    h_first_price,               \* history: first price resolved in the session
    h_peak,                      \* history: highest price resolved since the buy
    removed,                     \* what the latest remove_token_from_csv() returned
    monitoring_active_lock,      \* whether the file monitoring_active.lock exists
    sniperx_pc,                  \* where the main loop of SniperX V2 is
    sniperx_sleep,               \* seconds of the time.sleep() SniperX V2 is in, else 0
    sol_updater_wake,            \* when the sleep of periodic_sol_price_updater() ends
    h_sol,                       \* history: the latest answer to the updater and
                                 \* the latest positive price it was given
    cluster_summaries_csv,       \* lines of cluster_summaries.csv, 0 when missing or empty
    cluster_events,              \* on_modified events of it the observer has queued
    cluster_handler,             \* the fields of the ClusterCSVChangeHandler
    risk_detector_pid,           \* content of risk_detector.pid, None when missing
    risk_detectors,              \* children the cluster watchdog started, and those alive
    h_cluster_event,             \* history: the latest on_modified the cluster watchdog handled
    sniperx_results_csv,         \* mtime of sniperx_results_1m.csv, None when missing
    csv_events,                  \* on_modified events of it the observer has queued
    csv_handler,                 \* the fields of the CSVChangeHandler
    test_chrome_pid,             \* content of test_chrome.pid, None when missing
    test_chromes,                \* children the results watchdog started, and those alive
    h_csv_event                  \* history: the latest on_modified the results watchdog handled

vars == << now, feed, trades_csv, main_pc, tasks, listener_task, trader_task,
           g_last_known_sol_price, g_latest_trade_data,
           g_last_dex_price_fetch_time, g_current_mint_address, g_token_name,
           g_baseline_price_usd, g_buy_price_usd, g_highest_price_usd,
           g_token_monitor_start_time, g_trade_status, stagnation_timer_start,
           session, h_tick, h_first_price, h_peak, removed,
           monitoring_active_lock, sniperx_pc, sniperx_sleep,
           sol_updater_wake, h_sol, cluster_summaries_csv, cluster_events,
           cluster_handler, risk_detector_pid, risk_detectors,
           h_cluster_event, sniperx_results_csv, csv_events, csv_handler,
           test_chrome_pid, test_chromes, h_csv_event >>

globals == << g_latest_trade_data, g_baseline_price_usd, g_buy_price_usd,
              g_highest_price_usd, g_token_monitor_start_time, g_trade_status >>

hist == << session, h_tick, h_first_price, h_peak, removed >>

sniperx == << monitoring_active_lock, sniperx_pc, sniperx_sleep >>

updater == << sol_updater_wake, h_sol >>

cluster_watchdog == << cluster_summaries_csv, cluster_events, cluster_handler,
                       risk_detector_pid, risk_detectors, h_cluster_event >>

results_watchdog == << sniperx_results_csv, csv_events, csv_handler,
                       test_chrome_pid, test_chromes, h_csv_event >>

watchdogs == << cluster_watchdog, results_watchdog >>

-----------------------------------------------------------------------------
(* Optional values *)

None == << >>

Some(x) == << x >>

Val(o) == o[1]

Max(a, b) == IF a >= b THEN a ELSE b

Sec(s) == 2 * s

-----------------------------------------------------------------------------
(* Configuration, Monitoring.py lines 22-44 *)

TRADE_LOGIC_INTERVAL_TICKS == 1

CSV_CHECK_INTERVAL_SECONDS == 10

CYCLE_PAUSE_SECONDS == 2

DEX_COOLDOWN_SECONDS == 1

MIN_LIQUIDITY_USD == 10000

PRICE_IMPACT_THRESHOLD_MONITOR == 80

TRAILING_STOP_THRESHOLD_PERCENT == 80

TRAILING_STOP_ACTIVATION_PERCENT == 101

TAKE_PROFIT_THRESHOLD_PERCENT == 115

STOP_LOSS_THRESHOLD_PERCENT == 80

STAGNATION_PRICE_THRESHOLD_PERCENT == 80

STAGNATION_TIMEOUT_SECONDS == 180

NO_BUY_SIGNAL_TIMEOUT_SECONDS == 180

MIN_VOLUME_RATIO == 12

MIN_TX_RATIO == 11

MIN_BUY_VOLUME_USD == 500

MIN_BUY_TXS == 10

MIN_SELL_VOLUME_USD == 100

BUY_SIGNAL_PRICE_INCREASE_PERCENT == 101

\* Line 1379: SniperX V2's pause between two looks at the lock file, in seconds.
check_interval_seconds == 3

\* Line 22: seconds between two refreshes of the SOL/USD price.
SOL_PRICE_UPDATE_INTERVAL_SECONDS == 15

\* Line 217: the listener's pause before it connects again, in seconds.
RECONNECT_BACKOFF_SECONDS == 5

\* Line 337: the pause after an error in the tick loop, in seconds.
ERROR_PAUSE_SECONDS == 1

INITIAL_SOL_PRICE == 155

DEQUE_MAXLEN == 100

-----------------------------------------------------------------------------
(* Bounds of the model *)

\* time.time() when main() starts
BootTime == 5

\* The orchestrator polls an empty feed only up to this time.
MaxTime == 60

\* Trade messages received per session
MaxBuffered == 1

\* Ticks are explored in the first EarlyWindow half seconds of a session and in
\* the LateWindow half seconds that follow the 180 s timeouts.
EarlyWindow == 10

LateWindow == 3

\* The largest price of the grid on which the exit thresholds are compared.
MaxGridPrice == 30

\* The ledger rows after which no further failure of log_trade_result is
\* explored.
MaxLedgerRows == 2

\* The last session during which rewrites of the feed are explored.
MaxProducerSession == 1

\* The longest feed on which remove_token_from_csv() is explored on its own.
MaxFeedLen == 3

\* Time that can pass between two consecutive ticks: the 0.5 s sleep alone,
\* the sleep plus a slow fallback query, or a 180 s stall.
Delays == { TRADE_LOGIC_INTERVAL_TICKS, 3, Sec(NO_BUY_SIGNAL_TIMEOUT_SECONDS) }

Prices == { 800, 805, 1000, 1010, 1012, 1150 }

StreamSolAmounts == { 1000, 1012 }

Mints == { "X", "Y" }

\* What the fallback source can answer: nothing, or a price with volumes.
VolumeProfiles ==
    { [buy_volume |-> 600, sell_volume |-> 400, buys |-> 12, sells |-> 8],
      [buy_volume |-> 600, sell_volume |-> 550, buys |-> 12, sells |-> 11] }

DexAnswers ==
    { None } \cup
    { Some([price |-> p, buy_volume |-> v.buy_volume, sell_volume |-> v.sell_volume,
            buys |-> v.buys, sells |-> v.sells]) :
        p \in Prices \cup {0}, v \in VolumeProfiles }

\* Trade messages the stream can deliver.
TradeMessages ==
    { [mint |-> m, tokenAmount |-> INITIAL_SOL_PRICE, solAmount |-> s] :
        m \in Mints, s \in StreamSolAmounts }
    \cup { [mint |-> m, tokenAmount |-> 0, solAmount |-> 5] : m \in Mints }

\* Trade messages with an amount that is not a number.
MalformedMessages ==
    { [mint |-> m, tokenAmount_raw |-> "12,5", solAmount |-> 1000] : m \in Mints }
    \cup { [mint |-> m, tokenAmount |-> INITIAL_SOL_PRICE, solAmount_raw |-> "n/a"] :
             m \in Mints }

\* The feed of a run with one session
SingleFeed ==
    << [Address |-> "Z", Name |-> "zed", Overall_Risk_Status |-> "High Risk",
        Liquidity |-> 50000, Price_Impact |-> 10],
       [Address |-> "X", Name |-> "ex", Overall_Risk_Status |-> "Low Risk",
        Liquidity |-> 50000, Price_Impact |-> 10] >>

\* The feed of a run with two sessions
InitialFeed ==
    << [Address |-> "Z", Name |-> "zed", Overall_Risk_Status |-> "High Risk",
        Liquidity |-> 50000, Price_Impact |-> 10],
       [Address |-> "X", Name |-> "ex", Overall_Risk_Status |-> "Low Risk",
        Liquidity |-> 50000, Price_Impact |-> 10],
       [Address |-> "Y", Name |-> "why", Overall_Risk_Status |-> "Low Risk",
        Liquidity |-> 20000, Price_Impact |-> 79] >>

-----------------------------------------------------------------------------
(* Feed and ledger helpers *)

\* load_token_from_csv: whether a row passes the risk status and sanity checks.
RowEligible(row) ==
    /\ row.Overall_Risk_Status = "Low Risk"
    /\ row.Liquidity >= MIN_LIQUIDITY_USD
    /\ row.Price_Impact < PRICE_IMPACT_THRESHOLD_MONITOR

\* load_token_from_csv: the first eligible row, as an optional [address, name].
load_token_from_csv(rows) ==
    LET ok == { i \in DOMAIN rows : RowEligible(rows[i]) }
    IN  IF ok = {} THEN None
        ELSE LET i == CHOOSE j \in ok : \A k \in ok : j <= k
             IN  Some([address |-> rows[i].Address, name |-> rows[i].Name])

\* The OrderedDict rows_map of remove_token_from_csv: one row per Address, at
\* the position of the first row with that Address, holding the last such row.
RECURSIVE RowsMap(_, _)
RowsMap(rows, i) ==
    IF i > Len(rows) THEN << >>
    ELSE LET addr == rows[i].Address
             rest == RowsMap(rows, i + 1)
         IN  IF \E k \in 1..(i - 1) : rows[k].Address = addr
             THEN rest
             ELSE LET last == CHOOSE j \in i..Len(rows) :
                                /\ rows[j].Address = addr
                                /\ \A k \in i..Len(rows) :
                                     rows[k].Address = addr => k <= j
                  IN  << rows[last] >> \o rest

\* Variant: the file is left as it is.
remove_token_from_csv_nothing(token_address, rows) == rows

\* remove_token_from_csv: the file contents afterwards.
remove_token_from_csv(token_address, rows) ==
    IF \E i \in DOMAIN rows : rows[i].Address = token_address
    THEN SelectSeq(RowsMap(rows, 1), LAMBDA r : r.Address # token_address)
    ELSE rows

\* remove_token_from_csv: the value returned, True when a row was removed
\* (lines 101-110), False when the address is not in the file (line 113).
remove_token_from_csv_returns(token_address, rows) ==
    \E i \in DOMAIN rows : rows[i].Address = token_address

\* log_trade_result: gain_loss_pct in hundredths of a percent, as printed with
\* two decimals (nearest hundredth).
GainLossPct(buy_price, sell_price) ==
    IF buy_price # None /\ sell_price # None /\ Val(buy_price) > 0
    THEN LET num == (Val(sell_price) - Val(buy_price)) * 10000
             den == Val(buy_price)
         IN  Some((2 * num + den) \div (2 * den))
    ELSE None

\* log_trade_result: the 'result' column.
TradeResult(buy_price, sell_price) ==
    IF buy_price # None /\ sell_price # None /\ Val(buy_price) > 0
    THEN IF Val(sell_price) - Val(buy_price) > 0 THEN "PROFIT" ELSE "LOSS"
    ELSE ""

\* log_trade_result: the row appended to trades.csv.
log_trade_result(token_name, mint_address, reason, buy_price, sell_price) ==
    [ token_name    |-> token_name,
      mint_address  |-> mint_address,
      reason        |-> reason,
      buy_price     |-> buy_price,
      sell_price    |-> sell_price,
      gain_loss_pct |-> GainLossPct(buy_price, sell_price),
      result        |-> TradeResult(buy_price, sell_price) ]

-----------------------------------------------------------------------------
(* Price resolution, lines 230-243 *)


\* Lines 233-236 on a trade whose amount is not a number: the comparison
\* `trade.get("tokenAmount", 0) > 0`, or the division when solAmount is the
\* bad field, raises TypeError.  A field that holds a number is `tokenAmount`
\* or `solAmount`; one that holds some other JSON value is `tokenAmount_raw`
\* or `solAmount_raw`.
StreamPriceRaises(buffer) ==
    /\ buffer # << >>
    /\ LET trade == buffer[Len(buffer)]
       IN  \/ "tokenAmount_raw" \in DOMAIN trade
           \/ /\ "solAmount_raw" \in DOMAIN trade
              /\ trade.tokenAmount > 0

\* Line 233-236: the price of the most recent buffered trade.
StreamPrice(buffer, sol_price) ==
    IF buffer # << >> /\ buffer[Len(buffer)].tokenAmount > 0
    THEN Some((buffer[Len(buffer)].solAmount * sol_price)
                 \div buffer[Len(buffer)].tokenAmount)
    ELSE None

\* Variant: the fallback source is queried on every tick.
DexFetchAlways(current_time, last_fetch) == TRUE

\* Line 238: the fallback source is queried when the cooldown has passed.
DexFetchDue(current_time, last_fetch) ==
    current_time - last_fetch > Sec(DEX_COOLDOWN_SECONDS)

\* Variant: a valid fallback answer replaces the stream price.
ResolvePriceFallbackFirst(stream_price, dex_data) ==
    IF dex_data # None /\ Val(dex_data).price # 0
    THEN Some(Val(dex_data).price)
    ELSE stream_price

\* Lines 241-242: the fallback price is used only when no stream price exists.
ResolvePrice(stream_price, dex_data) ==
    IF dex_data # None /\ Val(dex_data).price # 0 /\ stream_price = None
    THEN Some(Val(dex_data).price)
    ELSE stream_price

-----------------------------------------------------------------------------
(* Decision conditions, lines 295-334 *)

\* Line 296
NoBuySignalTimedOut(current_time, start_time) ==
    current_time - start_time > Sec(NO_BUY_SIGNAL_TIMEOUT_SECONDS)

\* Variant: the buy threshold itself counts as a signal.
BuyPriceCondInclusive(price, baseline) ==
    price * 100 >= baseline * BUY_SIGNAL_PRICE_INCREASE_PERCENT

\* Line 301
BuyPriceCond(price, baseline) ==
    price * 100 > baseline * BUY_SIGNAL_PRICE_INCREASE_PERCENT

\* Lines 303-306, on the record returned by get_dexscreener_data
VolumeConfirmed(d) ==
    /\ d.buy_volume >= MIN_BUY_VOLUME_USD
    /\ d.buys >= MIN_BUY_TXS
    /\ \/ d.sell_volume <= 0
       \/ d.buy_volume * 10 >= MIN_VOLUME_RATIO * Max(d.sell_volume, MIN_SELL_VOLUME_USD)
    /\ d.buys * 10 >= MIN_TX_RATIO * Max(d.sells, 1)

\* Line 302 and 306: the buy signal of a Monitoring tick
BuySignal(price, baseline, dex_data) ==
    /\ BuyPriceCond(price, baseline)
    /\ dex_data # None
    /\ VolumeConfirmed(Val(dex_data))

\* Variant: the latest price is kept instead of the highest.
NewHighestLast(price, highest) == price

\* Line 313
NewHighest(price, highest) == IF price > highest THEN price ELSE highest

\* Line 315
TakeProfitCond(price, buy) == price * 100 >= buy * TAKE_PROFIT_THRESHOLD_PERCENT

\* Line 319
StopLossCond(price, buy) == price * 100 <= buy * STOP_LOSS_THRESHOLD_PERCENT

\* Variant: the trailing stop is armed at the activation level itself.
TrailingArmedInclusive(highest, buy) ==
    highest * 100 >= buy * TRAILING_STOP_ACTIVATION_PERCENT

\* Line 323, first conjunct
TrailingArmed(highest, buy) ==
    highest * 100 > buy * TRAILING_STOP_ACTIVATION_PERCENT

\* Line 323
TrailingStopCond(price, buy, highest) ==
    /\ TrailingArmed(highest, buy)
    /\ price * 100 <= highest * TRAILING_STOP_THRESHOLD_PERCENT

\* Line 327
StagnationCond(price, baseline) ==
    price * 100 <= baseline * STAGNATION_PRICE_THRESHOLD_PERCENT

\* Line 329
StagnationTimedOut(current_time, timer) ==
    timer # None /\ current_time - Val(timer) > Sec(STAGNATION_TIMEOUT_SECONDS)

\* Variant: the trailing stop is tested before the stop loss.
ExitReasonTrailingFirst(price, buy, highest, baseline, current_time, timer) ==
    IF TakeProfitCond(price, buy) THEN Some("Take profit")
    ELSE IF TrailingStopCond(price, buy, highest) THEN Some("Trailing stop")
    ELSE IF StopLossCond(price, buy) THEN Some("Stop loss")
    ELSE IF StagnationCond(price, baseline) /\ StagnationTimedOut(current_time, timer)
         THEN Some("Stagnation timeout")
    ELSE None

\* Lines 315-334: the exit of a Bought tick, TakeProfit before StopLoss before
\* TrailingStop before StagnationTimeout; None when no exit fires.
ExitReason(price, buy, highest, baseline, current_time, timer) ==
    IF TakeProfitCond(price, buy) THEN Some("Take profit")
    ELSE IF StopLossCond(price, buy) THEN Some("Stop loss")
    ELSE IF TrailingStopCond(price, buy, highest) THEN Some("Trailing stop")
    ELSE IF StagnationCond(price, baseline) /\ StagnationTimedOut(current_time, timer)
         THEN Some("Stagnation timeout")
    ELSE None

\* Lines 327-334: the stagnation timer after a Bought tick that did not return
\* before line 327.
StagnationTimerAfter(price, baseline, current_time, timer) ==
    IF StagnationCond(price, baseline)
    THEN IF timer = None THEN Some(current_time) ELSE timer
    ELSE None

-----------------------------------------------------------------------------
(* Initial state: the module globals of lines 47-56, before main() runs *)

NoTick == [time |-> 0, price |-> None, buy_ok |-> FALSE, reason |-> None,
           raised |-> FALSE, recovered |-> FALSE, dex_other |-> FALSE]

\* History: the fallback source answered, on this tick, a valid price other
\* than the price the tick resolved.
DexAnsweredOther(dex_data, usd) ==
    /\ dex_data # None
    /\ Val(dex_data).price # 0
    /\ Some(Val(dex_data).price) # usd

\* History of the cluster watchdog before its first event: whether lines were
\* appended that no handled event has seen, how the latest handled event ended
\* and whether it terminated a running risk detector.
NoClusterEvent == [unseen |-> FALSE, outcome |-> "none", terminated |-> FALSE]

\* History of the results watchdog before its first event.
NoCsvEvent == [outcome |-> "none", terminated |-> FALSE]

InitWith(rows) ==
    /\ now = BootTime
    /\ feed = rows
    /\ trades_csv = << >>
    /\ main_pc = "load"
    /\ tasks = << >>
    /\ listener_task = 0
    /\ trader_task = 0
    /\ g_last_known_sol_price = INITIAL_SOL_PRICE
    /\ g_latest_trade_data = << >>
    /\ g_last_dex_price_fetch_time = 0
    /\ g_current_mint_address = None
    /\ g_token_name = None
    /\ g_baseline_price_usd = None
    /\ g_buy_price_usd = None
    /\ g_highest_price_usd = None
    /\ g_token_monitor_start_time = 0
    /\ g_trade_status = "monitoring"
    /\ stagnation_timer_start = None
    /\ session = 0
    /\ h_tick = NoTick
    /\ h_first_price = None
    /\ h_peak = None
    /\ removed = None
    /\ monitoring_active_lock = FALSE
    /\ sniperx_pc = "check"
    /\ sniperx_sleep = 0
    /\ sol_updater_wake = BootTime
    /\ h_sol = [valid |-> INITIAL_SOL_PRICE, last |-> None]
    /\ cluster_summaries_csv = 0
    /\ cluster_events = 0
    /\ cluster_handler = [last_line_count  |-> cluster_summaries_csv,
                          running_process  |-> None,
                          last_launch_time |-> 0]
    /\ risk_detector_pid = None
    /\ risk_detectors = [started |-> 0, alive |-> {}]
    /\ h_cluster_event = NoClusterEvent
    /\ sniperx_results_csv = None
    /\ csv_events = 0
    /\ csv_handler = [last_mtime       |-> 0,
                      running_process  |-> None,
                      last_launch_time |-> 0]
    /\ test_chrome_pid = None
    /\ test_chromes = [started |-> 0, alive |-> {}]
    /\ h_csv_event = NoCsvEvent

Init == InitWith(SingleFeed)

-----------------------------------------------------------------------------
(* Tasks *)

NewTask(kind, mint, name) ==
    [kind |-> kind, mint |-> mint, name |-> name, st |-> "running",
     at |-> IF kind = "listener" THEN "connecting" ELSE "loop",
     \* when the asyncio.sleep(5) of line 217 returns, 0 when not in it
     wake |-> 0,
     \* history: how often the listener has connected again
     reconnects |-> 0]

Alive(kind) == { i \in DOMAIN tasks : tasks[i].kind = kind /\ tasks[i].st # "done" }

IsDone(i) == i \in DOMAIN tasks /\ tasks[i].st = "done"

\* Task.cancel(): a task that has not finished is asked to stop.
Cancel(ts, i) ==
    IF ts[i].st = "running" THEN [ts EXCEPT ![i].st = "cancelling"] ELSE ts

-----------------------------------------------------------------------------
(* main(), lines 339-375 *)

\* Variant: the session starts without reset_token_specific_state().
MainStartSessionNoReset ==
    /\ main_pc = "load"
    /\ load_token_from_csv(feed) # None
    /\ LET tok == Val(load_token_from_csv(feed))
       IN  /\ g_current_mint_address' = Some(tok.address)
           /\ g_token_name' = Some(tok.name)
           /\ tasks' = tasks \o << NewTask("listener", tok.address, tok.name),
                                   NewTask("trader", tok.address, tok.name) >>
           /\ listener_task' = Len(tasks) + 1
           /\ trader_task' = Len(tasks) + 2
           /\ stagnation_timer_start' = None
    /\ main_pc' = "await_trader"
    /\ session' = session + 1
    /\ h_tick' = NoTick
    /\ h_first_price' = None
    /\ h_peak' = None
    /\ UNCHANGED << now, feed, trades_csv, g_last_known_sol_price,
                    g_last_dex_price_fetch_time, globals, removed, sniperx,
                    updater, watchdogs >>

\* Lines 346-358: a candidate is found; globals are reset and both tasks start.
MainStartSession ==
    /\ main_pc = "load"
    /\ load_token_from_csv(feed) # None
    /\ LET tok == Val(load_token_from_csv(feed))
       IN  /\ g_current_mint_address' = Some(tok.address)
           /\ g_token_name' = Some(tok.name)
           \* reset_token_specific_state()
           /\ g_latest_trade_data' = << >>
           /\ g_baseline_price_usd' = None
           /\ g_buy_price_usd' = None
           /\ g_highest_price_usd' = None
           /\ g_token_monitor_start_time' = now
           /\ g_trade_status' = "monitoring"
           \* create_task x 2
           /\ tasks' = tasks \o << NewTask("listener", tok.address, tok.name),
                                   NewTask("trader", tok.address, tok.name) >>
           /\ listener_task' = Len(tasks) + 1
           /\ trader_task' = Len(tasks) + 2
           \* line 223, executed when the tick loop first runs
           /\ stagnation_timer_start' = None
    /\ main_pc' = "await_trader"
    /\ session' = session + 1
    /\ h_tick' = NoTick
    /\ h_first_price' = None
    /\ h_peak' = None
    /\ UNCHANGED << now, feed, trades_csv, g_last_known_sol_price,
                    g_last_dex_price_fetch_time, removed, sniperx,
                    updater, watchdogs >>

\* Lines 346-350: no candidate; sleep CSV_CHECK_INTERVAL_SECONDS and look again.
MainNoCandidate ==
    /\ main_pc = "load"
    /\ load_token_from_csv(feed) = None
    /\ now + Sec(CSV_CHECK_INTERVAL_SECONDS) <= MaxTime
    /\ now' = now + Sec(CSV_CHECK_INTERVAL_SECONDS)
    /\ UNCHANGED << feed, trades_csv, main_pc, tasks, listener_task, trader_task,
                    g_last_known_sol_price, g_last_dex_price_fetch_time,
                    g_current_mint_address, g_token_name, stagnation_timer_start,
                    globals, hist, sniperx,
                    updater, watchdogs >>

\* Variant: main() goes on without waiting for the tick loop to return.
TraderNotAwaited == trader_task \in DOMAIN tasks

\* Whether `await trader_task` (line 362) can return.
TraderAwaited == IsDone(trader_task)

\* Lines 362-366: the tick loop has returned; the listener is cancelled.
MainTraderFinished ==
    /\ main_pc = "await_trader"
    /\ TraderAwaited
    /\ tasks' = Cancel(tasks, listener_task)
    /\ main_pc' = "await_listener"
    /\ UNCHANGED << now, feed, trades_csv, listener_task, trader_task,
                    g_last_known_sol_price, g_last_dex_price_fetch_time,
                    g_current_mint_address, g_token_name, stagnation_timer_start,
                    globals, hist, sniperx,
                    updater, watchdogs >>

\* Variant: the listener is cancelled but its termination is not awaited.
ListenerNotAwaited == listener_task \in DOMAIN tasks

\* Whether `await asyncio.gather(listener_task, ...)` (line 367) can return.
ListenerAwaited == IsDone(listener_task)

\* Lines 367-371: the listener has terminated; the token leaves the feed.
MainListenerFinished ==
    /\ main_pc = "await_listener"
    /\ ListenerAwaited
    /\ feed' = remove_token_from_csv(Val(g_current_mint_address), feed)
    \* the returned value is discarded at line 369
    /\ removed' = Some([address |-> Val(g_current_mint_address),
                        ok |-> remove_token_from_csv_returns(
                                   Val(g_current_mint_address), feed)])
    /\ g_current_mint_address' = None
    /\ g_token_name' = None
    /\ main_pc' = "cycle_pause"
    /\ UNCHANGED << now, trades_csv, tasks, listener_task, trader_task,
                    g_last_known_sol_price, g_last_dex_price_fetch_time,
                    stagnation_timer_start, globals, session, h_tick,
                    h_first_price, h_peak, sniperx,
                    updater, watchdogs >>

\* Line 375: the pause before the next candidate is looked up.
MainCyclePause ==
    /\ main_pc = "cycle_pause"
    /\ now' = now + Sec(CYCLE_PAUSE_SECONDS)
    /\ main_pc' = "load"
    /\ UNCHANGED << feed, trades_csv, tasks, listener_task, trader_task,
                    g_last_known_sol_price, g_last_dex_price_fetch_time,
                    g_current_mint_address, g_token_name, stagnation_timer_start,
                    globals, hist, sniperx,
                    updater, watchdogs >>

-----------------------------------------------------------------------------
(* listen_for_trades(), lines 201-217 *)

IsListener(i, st, ats) ==
    /\ i \in DOMAIN tasks
    /\ tasks[i].kind = "listener"
    /\ tasks[i].st = st
    /\ tasks[i].at \in ats

\* deque(maxlen=100).append
DequeAppend(buffer, x) ==
    IF Len(buffer) >= DEQUE_MAXLEN THEN Tail(buffer) \o << x >> ELSE buffer \o << x >>

\* Variant: every inbound message is kept.
AcceptAnyTrade(msg, mint_address) == msg.mint \in Mints

\* Line 210: only messages of the task's own token are kept.
AcceptTrade(msg, mint_address) == msg.mint = mint_address

\* Lines 205-207: connect and subscribe.
ListenerSubscribe(i) ==
    /\ IsListener(i, "running", {"connecting"})
    /\ tasks' = [tasks EXCEPT ![i].at = "subscribed"]
    /\ UNCHANGED << now, feed, trades_csv, main_pc, listener_task, trader_task,
                    g_last_known_sol_price, g_last_dex_price_fetch_time,
                    g_current_mint_address, g_token_name, stagnation_timer_start,
                    globals, hist, sniperx,
                    updater, watchdogs >>

\* Lines 208-211: one inbound message.
ListenerReceive(i, msg) ==
    /\ IsListener(i, "running", {"subscribed"})
    /\ Len(g_latest_trade_data) < MaxBuffered
    /\ g_latest_trade_data' =
          IF AcceptTrade(msg, tasks[i].mint)
          THEN DequeAppend(g_latest_trade_data, msg)
          ELSE g_latest_trade_data
    /\ UNCHANGED << now, feed, trades_csv, main_pc, tasks, listener_task, trader_task,
                    g_last_known_sol_price, g_last_dex_price_fetch_time,
                    g_current_mint_address, g_token_name, stagnation_timer_start,
                    g_baseline_price_usd, g_buy_price_usd, g_highest_price_usd,
                    g_token_monitor_start_time, g_trade_status, hist, sniperx,
                    updater, watchdogs >>


\* Variant: a connection error ends the listener.
ListenerErrorEnds(i) ==
    /\ IsListener(i, "running", {"connecting", "subscribed"})
    /\ tasks' = [tasks EXCEPT ![i].st = "done"]
    /\ UNCHANGED << now, feed, trades_csv, main_pc, listener_task, trader_task,
                    g_last_known_sol_price, g_last_dex_price_fetch_time,
                    g_current_mint_address, g_token_name, stagnation_timer_start,
                    globals, hist, sniperx,
                    updater, watchdogs >>

\* Lines 215-217: a connection error; back off.
ListenerError(i) ==
    /\ IsListener(i, "running", {"connecting", "subscribed"})
    /\ tasks' = [tasks EXCEPT ![i].at = "backoff",
                              ![i].wake = now + Sec(RECONNECT_BACKOFF_SECONDS)]
    /\ UNCHANGED << now, feed, trades_csv, main_pc, listener_task, trader_task,
                    g_last_known_sol_price, g_last_dex_price_fetch_time,
                    g_current_mint_address, g_token_name, stagnation_timer_start,
                    globals, hist, sniperx,
                    updater, watchdogs >>

\* Line 217 then 203: the backoff is over; connect again.
ListenerReconnect(i) ==
    /\ IsListener(i, "running", {"backoff"})
    /\ now >= tasks[i].wake
    /\ tasks' = [tasks EXCEPT ![i].at = "connecting",
                              ![i].wake = 0,
                              ![i].reconnects = @ + 1]
    /\ UNCHANGED << now, feed, trades_csv, main_pc, listener_task, trader_task,
                    g_last_known_sol_price, g_last_dex_price_fetch_time,
                    g_current_mint_address, g_token_name, stagnation_timer_start,
                    globals, hist, sniperx,
                    updater, watchdogs >>

\* Lines 212-214: CancelledError is re-raised; the task ends.
ListenerCancelled(i) ==
    /\ IsListener(i, "cancelling", {"connecting", "subscribed", "backoff"})
    /\ tasks' = [tasks EXCEPT ![i].st = "done"]
    /\ UNCHANGED << now, feed, trades_csv, main_pc, listener_task, trader_task,
                    g_last_known_sol_price, g_last_dex_price_fetch_time,
                    g_current_mint_address, g_token_name, stagnation_timer_start,
                    globals, hist, sniperx,
                    updater, watchdogs >>

-----------------------------------------------------------------------------
(* trade_logic_and_price_display_loop(), lines 219-337: one iteration *)

IsTrader(i) ==
    /\ i \in DOMAIN tasks
    /\ tasks[i].kind = "trader"
    /\ tasks[i].st = "running"

\* Variant: the baseline follows the latest price.
BaselineAfterOverwrite(baseline, price) == Some(price)

\* Lines 249-250: the baseline after a tick that resolved `price`.
BaselineAfter(baseline, price) ==
    IF baseline = None THEN Some(price) ELSE baseline

\* Variant: the buy signal is tested before the no-buy-signal timeout.
MonitoringStepBuyFirst(price, baseline, current_time, dex_data) ==
    IF BuySignal(price, baseline, dex_data)
    THEN [ status |-> "bought", buy |-> Some(price), highest |-> Some(price),
           timer |-> stagnation_timer_start, reason |-> None, log_buy |-> None ]
    ELSE IF NoBuySignalTimedOut(current_time, g_token_monitor_start_time)
    THEN [ status |-> g_trade_status, buy |-> g_buy_price_usd,
           highest |-> g_highest_price_usd, timer |-> stagnation_timer_start,
           reason |-> Some("No buy signal timeout"), log_buy |-> None ]
    ELSE [ status |-> g_trade_status, buy |-> g_buy_price_usd,
           highest |-> g_highest_price_usd, timer |-> stagnation_timer_start,
           reason |-> None, log_buy |-> None ]

\* Variant: the baseline is recorded as the buy price.
MonitoringStepBuyAtBaseline(price, baseline, current_time, dex_data) ==
    IF NoBuySignalTimedOut(current_time, g_token_monitor_start_time)
    THEN [ status |-> g_trade_status, buy |-> g_buy_price_usd,
           highest |-> g_highest_price_usd, timer |-> stagnation_timer_start,
           reason |-> Some("No buy signal timeout"), log_buy |-> None ]
    ELSE IF BuySignal(price, baseline, dex_data)
    THEN [ status |-> "bought", buy |-> Some(baseline), highest |-> Some(price),
           timer |-> stagnation_timer_start, reason |-> None, log_buy |-> None ]
    ELSE [ status |-> g_trade_status, buy |-> g_buy_price_usd,
           highest |-> g_highest_price_usd, timer |-> stagnation_timer_start,
           reason |-> None, log_buy |-> None ]

\* Variant: a confirmed volume alone is taken for a buy signal.
MonitoringStepBuyWithoutRise(price, baseline, current_time, dex_data) ==
    IF NoBuySignalTimedOut(current_time, g_token_monitor_start_time)
    THEN [ status |-> g_trade_status, buy |-> g_buy_price_usd,
           highest |-> g_highest_price_usd, timer |-> stagnation_timer_start,
           reason |-> Some("No buy signal timeout"), log_buy |-> None ]
    ELSE IF dex_data # None /\ VolumeConfirmed(Val(dex_data))
    THEN [ status |-> "bought", buy |-> Some(price), highest |-> Some(price),
           timer |-> stagnation_timer_start, reason |-> None, log_buy |-> None ]
    ELSE [ status |-> g_trade_status, buy |-> g_buy_price_usd,
           highest |-> g_highest_price_usd, timer |-> stagnation_timer_start,
           reason |-> None, log_buy |-> None ]

\* Variant: the tick of the buy signal closes the session at once.
MonitoringStepBuyAndSell(price, baseline, current_time, dex_data) ==
    IF NoBuySignalTimedOut(current_time, g_token_monitor_start_time)
    THEN [ status |-> g_trade_status, buy |-> g_buy_price_usd,
           highest |-> g_highest_price_usd, timer |-> stagnation_timer_start,
           reason |-> Some("No buy signal timeout"), log_buy |-> None ]
    ELSE IF BuySignal(price, baseline, dex_data)
    THEN [ status |-> "bought", buy |-> Some(price), highest |-> Some(price),
           timer |-> stagnation_timer_start, reason |-> Some("Trailing stop"),
           log_buy |-> Some(price) ]
    ELSE [ status |-> g_trade_status, buy |-> g_buy_price_usd,
           highest |-> g_highest_price_usd, timer |-> stagnation_timer_start,
           reason |-> None, log_buy |-> None ]

\* Lines 295-310: a tick in status 'monitoring'.  `reason` is the reason the
\* loop returns with, None when it goes on.
MonitoringStep(price, baseline, current_time, dex_data) ==
    IF NoBuySignalTimedOut(current_time, g_token_monitor_start_time)
    THEN [ status |-> g_trade_status, buy |-> g_buy_price_usd,
           highest |-> g_highest_price_usd, timer |-> stagnation_timer_start,
           reason |-> Some("No buy signal timeout"), log_buy |-> None ]
    ELSE IF BuySignal(price, baseline, dex_data)
    THEN [ status |-> "bought", buy |-> Some(price), highest |-> Some(price),
           timer |-> stagnation_timer_start, reason |-> None, log_buy |-> None ]
    ELSE [ status |-> g_trade_status, buy |-> g_buy_price_usd,
           highest |-> g_highest_price_usd, timer |-> stagnation_timer_start,
           reason |-> None, log_buy |-> None ]

\* Variant: a stop loss re-arms the monitoring instead of ending the session.
BoughtStepRearm(price, baseline, current_time) ==
    LET highest == NewHighest(price, Val(g_highest_price_usd))
        reason  == ExitReason(price, Val(g_buy_price_usd), highest, baseline,
                              current_time, stagnation_timer_start)
        rearm   == reason = Some("Stop loss")
    IN  [ status |-> IF rearm THEN "monitoring" ELSE g_trade_status,
          buy |-> g_buy_price_usd,
          highest |-> Some(highest),
          timer |-> stagnation_timer_start,
          reason |-> IF rearm THEN None ELSE reason,
          log_buy |-> g_buy_price_usd ]

\* Variant: the outcome of a Bought exit carries the baseline as buy price.
BoughtStepLogsBaseline(price, baseline, current_time) ==
    LET highest == NewHighest(price, Val(g_highest_price_usd))
        reason  == ExitReason(price, Val(g_buy_price_usd), highest, baseline,
                              current_time, stagnation_timer_start)
    IN  [ status |-> g_trade_status, buy |-> g_buy_price_usd,
          highest |-> Some(highest),
          timer |-> IF reason = None
                    THEN StagnationTimerAfter(price, baseline, current_time,
                                              stagnation_timer_start)
                    ELSE stagnation_timer_start,
          reason |-> reason, log_buy |-> Some(baseline) ]

\* Lines 312-334: a tick in status 'bought'.
BoughtStep(price, baseline, current_time) ==
    LET highest == NewHighest(price, Val(g_highest_price_usd))
        reason  == ExitReason(price, Val(g_buy_price_usd), highest, baseline,
                              current_time, stagnation_timer_start)
    IN  [ status |-> g_trade_status, buy |-> g_buy_price_usd,
          highest |-> Some(highest),
          timer |-> IF reason = None
                    THEN StagnationTimerAfter(price, baseline, current_time,
                                              stagnation_timer_start)
                    ELSE stagnation_timer_start,
          reason |-> reason, log_buy |-> g_buy_price_usd ]

\* Lines 295 and 312: which branch a tick with a resolved price takes.
DecisionStep(price, baseline, current_time, dex_data) ==
    IF g_trade_status = "monitoring"
    THEN MonitoringStep(price, baseline, current_time, dex_data)
    ELSE IF g_trade_status = "bought" /\ g_buy_price_usd # None
    THEN BoughtStep(price, baseline, current_time)
    ELSE [ status |-> g_trade_status, buy |-> g_buy_price_usd,
           highest |-> g_highest_price_usd, timer |-> stagnation_timer_start,
           reason |-> None, log_buy |-> None ]

\* The task after a tick: `return` ends it.
TaskAfterTick(ts, i, reason) ==
    IF reason # None THEN [ts EXCEPT ![i].st = "done"] ELSE ts

\* Variant: a tick writes a ledger row for a token it has no price for.
TradeLogicTickUnknownLogs(i, d, dex) ==
    /\ IsTrader(i)
    /\ now' = now + d
    /\ trades_csv' = Append(trades_csv,
                            log_trade_result(tasks[i].name, tasks[i].mint,
                                             "No buy signal timeout", None, None))
    /\ h_tick' = [time |-> now + d, price |-> None, buy_ok |-> FALSE,
                  reason |-> None, raised |-> FALSE,
                  recovered |-> h_tick.raised \/ h_tick.recovered,
                  dex_other |-> FALSE]
    /\ UNCHANGED << feed, main_pc, tasks, listener_task, trader_task,
                    g_last_known_sol_price, g_last_dex_price_fetch_time,
                    g_current_mint_address, g_token_name, stagnation_timer_start,
                    globals, session, h_first_price, h_peak, removed, sniperx,
                    updater, watchdogs >>

\* One iteration of the loop of task i: d is the time since the previous
\* reading of the clock, dex what the fallback source answers if it is asked.
TradeLogicTick(i, d, dex) ==
    /\ IsTrader(i)
    /\ ~ StreamPriceRaises(g_latest_trade_data)
    /\ LET current_time == now + d
           stream   == StreamPrice(g_latest_trade_data, g_last_known_sol_price)
           due      == DexFetchDue(current_time, g_last_dex_price_fetch_time)
           dex_data == IF due THEN dex ELSE None
           usd      == ResolvePrice(stream, dex_data)
       IN  /\ now' = current_time
           /\ g_last_dex_price_fetch_time' =
                 IF due THEN current_time ELSE g_last_dex_price_fetch_time
           /\ IF usd = None
              THEN \* lines 245-247: continue
                   /\ h_tick' = [time |-> current_time, price |-> None,
                                 buy_ok |-> FALSE, reason |-> None,
                                 raised |-> FALSE,
                                 recovered |-> h_tick.raised \/ h_tick.recovered,
                                 dex_other |-> FALSE]
                   /\ UNCHANGED << trades_csv, tasks, g_baseline_price_usd,
                                   g_buy_price_usd, g_highest_price_usd,
                                   g_trade_status, stagnation_timer_start,
                                   h_first_price, h_peak >>
              ELSE LET price    == Val(usd)
                       baseline == BaselineAfter(g_baseline_price_usd, price)
                       r        == DecisionStep(price, Val(baseline), current_time,
                                                dex_data)
                   IN  /\ g_baseline_price_usd' = baseline
                       /\ g_trade_status' = r.status
                       /\ g_buy_price_usd' = r.buy
                       /\ g_highest_price_usd' = r.highest
                       /\ stagnation_timer_start' = r.timer
                       /\ trades_csv' =
                             IF r.reason # None
                             THEN Append(trades_csv,
                                         log_trade_result(tasks[i].name, tasks[i].mint,
                                                          Val(r.reason), r.log_buy,
                                                          Some(price)))
                             ELSE trades_csv
                       /\ tasks' = TaskAfterTick(tasks, i, r.reason)
                       /\ h_tick' = [time |-> current_time, price |-> usd,
                                     buy_ok |-> /\ dex_data # None
                                                /\ VolumeConfirmed(Val(dex_data)),
                                     reason |-> r.reason,
                                     raised |-> FALSE,
                                     recovered |-> h_tick.raised \/ h_tick.recovered,
                                     dex_other |-> DexAnsweredOther(dex_data, usd)]
                       /\ h_first_price' =
                             IF h_first_price = None THEN usd ELSE h_first_price
                       /\ h_peak' =
                             IF r.status = "bought"
                             THEN IF h_peak = None THEN usd
                                  ELSE Some(Max(Val(h_peak), price))
                             ELSE h_peak
    /\ UNCHANGED << feed, main_pc, listener_task, trader_task,
                    g_last_known_sol_price, g_latest_trade_data,
                    g_current_mint_address, g_token_name,
                    g_token_monitor_start_time, session, removed, sniperx,
                    updater, watchdogs >>

\* One iteration of the loop of task i in which log_trade_result raises: the
\* exit of lines 296-332 has fired, the call of log_trade_result fails either
\* before the row is written (open, line 65) or after it (the report of
\* lines 82-83), the `return` that follows the call is skipped, line 335
\* catches the exception and the loop goes on after the pause of line 337.
TradeLogicTickLogError(i, d, dex, written) ==
    /\ IsTrader(i)
    /\ ~ StreamPriceRaises(g_latest_trade_data)
    /\ LET current_time == now + d
           stream   == StreamPrice(g_latest_trade_data, g_last_known_sol_price)
           due      == DexFetchDue(current_time, g_last_dex_price_fetch_time)
           dex_data == IF due THEN dex ELSE None
           usd      == ResolvePrice(stream, dex_data)
       IN  /\ usd # None
           /\ LET price    == Val(usd)
                  baseline == BaselineAfter(g_baseline_price_usd, price)
                  r        == DecisionStep(price, Val(baseline), current_time,
                                           dex_data)
              IN  /\ r.reason # None
                  /\ now' = current_time + Sec(ERROR_PAUSE_SECONDS)
                  /\ g_last_dex_price_fetch_time' =
                        IF due THEN current_time ELSE g_last_dex_price_fetch_time
                  /\ g_baseline_price_usd' = baseline
                  /\ g_trade_status' = r.status
                  /\ g_buy_price_usd' = r.buy
                  /\ g_highest_price_usd' = r.highest
                  /\ stagnation_timer_start' = r.timer
                  /\ trades_csv' =
                        IF written
                        THEN Append(trades_csv,
                                    log_trade_result(tasks[i].name, tasks[i].mint,
                                                     Val(r.reason), r.log_buy,
                                                     Some(price)))
                        ELSE trades_csv
                  /\ tasks' = tasks
                  /\ h_tick' = [time |-> current_time, price |-> usd,
                                buy_ok |-> /\ dex_data # None
                                           /\ VolumeConfirmed(Val(dex_data)),
                                reason |-> None,
                                raised |-> TRUE,
                                recovered |-> h_tick.raised \/ h_tick.recovered,
                                dex_other |-> DexAnsweredOther(dex_data, usd)]
                  /\ h_first_price' =
                        IF h_first_price = None THEN usd ELSE h_first_price
                  /\ h_peak' =
                        IF r.status = "bought"
                        THEN IF h_peak = None THEN usd
                             ELSE Some(Max(Val(h_peak), price))
                        ELSE h_peak
    /\ UNCHANGED << feed, main_pc, listener_task, trader_task,
                    g_last_known_sol_price, g_latest_trade_data,
                    g_current_mint_address, g_token_name,
                    g_token_monitor_start_time, session, removed, sniperx,
                    updater, watchdogs >>

\* Variant: the exception of lines 233-236 is not caught and ends the task.
TradeLogicTickUncaught(i, d) ==
    /\ IsTrader(i)
    /\ StreamPriceRaises(g_latest_trade_data)
    /\ now' = now + d
    /\ tasks' = [tasks EXCEPT ![i].st = "done"]
    /\ h_tick' = [time |-> now + d, price |-> None, buy_ok |-> FALSE,
                  reason |-> None, raised |-> TRUE,
                  recovered |-> h_tick.raised \/ h_tick.recovered,
                  dex_other |-> FALSE]
    /\ UNCHANGED << feed, trades_csv, main_pc, listener_task, trader_task,
                    g_last_known_sol_price, g_last_dex_price_fetch_time,
                    g_current_mint_address, g_token_name, stagnation_timer_start,
                    globals, session, h_first_price, h_peak, removed, sniperx,
                    updater, watchdogs >>

\* One iteration of the loop of task i in which lines 233-236 raise: nothing
\* has been assigned yet, the fallback source is not asked, line 335 catches
\* the exception and the loop goes on after the pause of line 337.
TradeLogicTickRaises(i, d) ==
    /\ IsTrader(i)
    /\ StreamPriceRaises(g_latest_trade_data)
    /\ now' = now + d + Sec(ERROR_PAUSE_SECONDS)
    /\ h_tick' = [time |-> now + d, price |-> None, buy_ok |-> FALSE,
                  reason |-> None, raised |-> TRUE,
                  recovered |-> h_tick.raised \/ h_tick.recovered,
                  dex_other |-> FALSE]
    /\ UNCHANGED << feed, trades_csv, main_pc, tasks, listener_task, trader_task,
                    g_last_known_sol_price, g_last_dex_price_fetch_time,
                    g_current_mint_address, g_token_name, stagnation_timer_start,
                    globals, session, h_first_price, h_peak, removed, sniperx,
                    updater, watchdogs >>

-----------------------------------------------------------------------------
(* The producer of the feed, risk_detector.py lines 312-323 *)

\* run_full_risk_analysis() rewrites token_risk_analysis.csv with the rows of
\* its latest analysis.
RiskDetectorWritesFeed(rows) ==
    /\ feed' = rows
    /\ UNCHANGED << now, trades_csv, main_pc, tasks, listener_task, trader_task,
                    g_last_known_sol_price, g_last_dex_price_fetch_time,
                    g_current_mint_address, g_token_name, stagnation_timer_start,
                    globals, hist, sniperx,
                    updater, watchdogs >>

-----------------------------------------------------------------------------
(* The main loop of SniperX V2, lines 1378-1418, and the lock file it reads *)

\* Everything Monitoring.py reads or writes.
monitoring == << now, feed, trades_csv, main_pc, tasks, listener_task,
                 trader_task, g_last_known_sol_price,
                 g_last_dex_price_fetch_time, g_current_mint_address,
                 g_token_name, stagnation_timer_start, globals, hist,
                 updater >>

\* Variant: a processing cycle is started whether or not the lock file exists.
SniperXCheckIgnoresLock ==
    /\ sniperx_pc = "check"
    /\ sniperx_pc' = "cycle"
    /\ sniperx_sleep' = 0
    /\ UNCHANGED << monitoring_active_lock, monitoring, watchdogs >>

\* Lines 1382-1393: the top of the loop.  When the lock file exists the loop
\* sleeps check_interval_seconds and looks again (line 1386-1387), otherwise
\* it starts a processing cycle (line 1393).
SniperXCheck ==
    /\ sniperx_pc = "check"
    /\ IF monitoring_active_lock
       THEN /\ sniperx_pc' = "paused"
            /\ sniperx_sleep' = check_interval_seconds
       ELSE /\ sniperx_pc' = "cycle"
            /\ sniperx_sleep' = 0
    /\ UNCHANGED << monitoring_active_lock, monitoring, watchdogs >>

\* Lines 1393-1418: the processing cycle returns; the loop sleeps
\* check_interval_seconds before it looks at the lock file again.
SniperXCycleDone ==
    /\ sniperx_pc = "cycle"
    /\ sniperx_pc' = "resting"
    /\ sniperx_sleep' = check_interval_seconds
    /\ UNCHANGED << monitoring_active_lock, monitoring, watchdogs >>

\* Lines 1386-1387 and 1418: time.sleep() returns; back to line 1382.
SniperXWake ==
    /\ sniperx_pc \in { "paused", "resting" }
    /\ sniperx_pc' = "check"
    /\ sniperx_sleep' = 0
    /\ UNCHANGED << monitoring_active_lock, monitoring, watchdogs >>

\* The lock file is an input of line 1382: nothing in Monitoring.py or in
\* SniperX V2 creates or removes it, so its existence changes only from
\* outside both programs.
LockFileCreated ==
    /\ ~ monitoring_active_lock
    /\ monitoring_active_lock' = TRUE
    /\ UNCHANGED << sniperx_pc, sniperx_sleep, monitoring, watchdogs >>

LockFileRemoved ==
    /\ monitoring_active_lock
    /\ monitoring_active_lock' = FALSE
    /\ UNCHANGED << sniperx_pc, sniperx_sleep, monitoring, watchdogs >>

-----------------------------------------------------------------------------
(* Specifications *)

TaskIds == 1..(2 * Len(InitialFeed))

\* The tick times that are explored (see EarlyWindow and LateWindow).
TickTimeModelled(current_time) ==
    LET elapsed == current_time - g_token_monitor_start_time
    IN  \/ elapsed <= EarlyWindow
        \/ /\ elapsed >= Sec(NO_BUY_SIGNAL_TIMEOUT_SECONDS)
           /\ elapsed <= Sec(NO_BUY_SIGNAL_TIMEOUT_SECONDS) + LateWindow

Tick(delays, answers) ==
    \E i \in TaskIds, d \in delays, dex \in answers :
        /\ TickTimeModelled(now + d)
        /\ TradeLogicTick(i, d, dex)

\* One session, every modelled price, delay and fallback answer.
Next ==
    \/ MainStartSession
    \/ MainNoCandidate
    \/ MainTraderFinished
    \/ MainListenerFinished
    \/ MainCyclePause
    \/ \E i \in TaskIds : ListenerSubscribe(i)
    \/ \E i \in TaskIds, msg \in TradeMessages : ListenerReceive(i, msg)
    \/ \E i \in TaskIds : ListenerCancelled(i)
    \/ Tick(Delays, DexAnswers)

Spec == Init /\ [][Next]_vars

\* Two consecutive sessions with the listener's reconnect loop, on a reduced
\* set of fallback answers.
OrchDelays == { 3, Sec(NO_BUY_SIGNAL_TIMEOUT_SECONDS) }

OrchMessages == { m \in TradeMessages : m.solAmount = 1000 }

OrchAnswers == { a \in DexAnswers :
                   \/ a = None
                   \/ /\ Val(a).price \in { 800, 1000 }
                      /\ VolumeConfirmed(Val(a)) }

InitOrch == InitWith(InitialFeed)

NextOrch ==
    \/ MainStartSession
    \/ MainNoCandidate
    \/ MainTraderFinished
    \/ MainListenerFinished
    \/ MainCyclePause
    \/ \E i \in TaskIds : ListenerSubscribe(i)
    \/ \E i \in TaskIds, msg \in OrchMessages : ListenerReceive(i, msg)
    \/ \E i \in TaskIds : ListenerError(i)
    \/ \E i \in TaskIds : ListenerReconnect(i)
    \/ \E i \in TaskIds : ListenerCancelled(i)
    \/ Tick(OrchDelays, OrchAnswers)

SpecOrch == InitOrch /\ [][NextOrch]_vars

\* One session in which log_trade_result may raise, on a reduced set of
\* fallback answers.
FaultDelays == { 1, Sec(NO_BUY_SIGNAL_TIMEOUT_SECONDS) }

TickLogError(delays, answers) ==
    \E i \in TaskIds, d \in delays, dex \in answers, written \in BOOLEAN :
        /\ TickTimeModelled(now + d)
        /\ Len(trades_csv) < MaxLedgerRows
        /\ TradeLogicTickLogError(i, d, dex, written)

NextFault ==
    \/ MainStartSession
    \/ MainNoCandidate
    \/ MainTraderFinished
    \/ MainListenerFinished
    \/ MainCyclePause
    \/ \E i \in TaskIds : ListenerSubscribe(i)
    \/ \E i \in TaskIds, msg \in OrchMessages : ListenerReceive(i, msg)
    \/ \E i \in TaskIds : ListenerCancelled(i)
    \/ Tick(FaultDelays, OrchAnswers)
    \/ TickLogError(FaultDelays, OrchAnswers)

SpecFault == Init /\ [][NextFault]_vars

\* One session in which trade messages can be malformed and a tick can raise.
TickRaises(delays) ==
    \E i \in TaskIds, d \in delays :
        /\ TickTimeModelled(now + d)
        /\ TradeLogicTickRaises(i, d)

NextErrors ==
    \/ MainStartSession
    \/ MainNoCandidate
    \/ MainTraderFinished
    \/ MainListenerFinished
    \/ MainCyclePause
    \/ \E i \in TaskIds : ListenerSubscribe(i)
    \/ \E i \in TaskIds, msg \in OrchMessages \cup MalformedMessages :
          ListenerReceive(i, msg)
    \/ \E i \in TaskIds : ListenerCancelled(i)
    \/ Tick(FaultDelays, OrchAnswers)
    \/ TickLogError(FaultDelays, OrchAnswers)
    \/ TickRaises(FaultDelays)

SpecErrors == Init /\ [][NextErrors]_vars

-----------------------------------------------------------------------------
(* Sessions with ticks half a second apart *)

RateDelays == { TRADE_LOGIC_INTERVAL_TICKS, Sec(NO_BUY_SIGNAL_TIMEOUT_SECONDS) }

\* Two sessions in a row, the tick loop running at its shortest interval.
NextRate ==
    \/ MainStartSession
    \/ MainNoCandidate
    \/ MainTraderFinished
    \/ MainListenerFinished
    \/ MainCyclePause
    \/ \E i \in TaskIds : ListenerSubscribe(i)
    \/ \E i \in TaskIds, msg \in OrchMessages : ListenerReceive(i, msg)
    \/ \E i \in TaskIds : ListenerCancelled(i)
    \/ Tick(RateDelays, OrchAnswers)

SpecRate == InitOrch /\ [][NextRate]_vars

-----------------------------------------------------------------------------
(* log_trade_result called on its own, lines 59-83 *)

\* Arguments of the calls: the buy price is absent in the call of line 298,
\* and both prices default to None (line 59).
LedgerPrices == { None, Some(1000), Some(1010) }

LedgerReasons == { "Take profit", "Trailing stop" }

\* One call of log_trade_result: a row is appended to trades.csv.
LogTradeResultCall(reason, buy_price, sell_price) ==
    /\ Len(trades_csv) < MaxLedgerRows
    /\ trades_csv' = Append(trades_csv,
                            log_trade_result("ex", "X", reason, buy_price, sell_price))
    /\ UNCHANGED << now, feed, main_pc, tasks, listener_task, trader_task,
                    g_last_known_sol_price, g_last_dex_price_fetch_time,
                    g_current_mint_address, g_token_name, stagnation_timer_start,
                    globals, hist, sniperx, updater, watchdogs >>

NextLedger ==
    \E reason \in LedgerReasons, buy_price \in LedgerPrices, sell_price \in LedgerPrices :
        LogTradeResultCall(reason, buy_price, sell_price)

SpecLedger == Init /\ [][NextLedger]_vars

-----------------------------------------------------------------------------
(* periodic_sol_price_updater, lines 160-175 *)

\* SOL/USD prices CoinGecko may quote.
SolQuotes == { INITIAL_SOL_PRICE, INITIAL_SOL_PRICE + 5 }

\* What one request of line 165 can end in: an answer with status 200 whose
\* "usd" entry is a quote, zero, or absent (usd = None: an empty object, a
\* missing key or null); an answer with another status; an exception
\* (timeout, connection error, a body that is not JSON).
SolResponses ==
    { [kind |-> "ok", usd |-> Some(q)] : q \in SolQuotes \cup { 0 } }
    \cup { [kind |-> "ok", usd |-> None],
           [kind |-> "http_error", usd |-> None],
           [kind |-> "exception", usd |-> None] }

\* Variant: whatever number the answer carries is stored.
SolPriceStoredUnchecked(resp, cached) ==
    IF resp.kind = "ok" /\ resp.usd # None THEN Val(resp.usd) ELSE cached

\* Lines 166-171: the value of g_last_known_sol_price after one request.
\* `if price and price != g_last_known_sol_price` is false for None and 0.
SolPriceAfter(resp, cached) ==
    IF /\ resp.kind = "ok"
       /\ resp.usd # None
       /\ Val(resp.usd) # 0
       /\ Val(resp.usd) # cached
    THEN Val(resp.usd)
    ELSE cached

\* One iteration of the loop of lines 163-175: the request, the assignment
\* and the sleep of line 172 or, after an exception, of line 175.
SolPriceUpdate(resp) ==
    /\ now >= sol_updater_wake
    /\ g_last_known_sol_price' = SolPriceAfter(resp, g_last_known_sol_price)
    /\ sol_updater_wake' = now + Sec(SOL_PRICE_UPDATE_INTERVAL_SECONDS)
    /\ h_sol' = [valid |-> IF /\ resp.kind = "ok"
                              /\ resp.usd # None
                              /\ Val(resp.usd) > 0
                           THEN Val(resp.usd)
                           ELSE h_sol.valid,
                 last  |-> Some(resp)]
    /\ UNCHANGED << now, feed, trades_csv, main_pc, tasks, listener_task,
                    trader_task, g_last_dex_price_fetch_time,
                    g_current_mint_address, g_token_name, stagnation_timer_start,
                    globals, hist, sniperx, watchdogs >>

\* A session next to the running price updater.
NextSol ==
    \/ MainStartSession
    \/ MainNoCandidate
    \/ MainTraderFinished
    \/ MainListenerFinished
    \/ MainCyclePause
    \/ \E i \in TaskIds : ListenerSubscribe(i)
    \/ \E i \in TaskIds, msg \in OrchMessages : ListenerReceive(i, msg)
    \/ \E i \in TaskIds : ListenerCancelled(i)
    \/ Tick(FaultDelays, OrchAnswers)
    \/ \E resp \in SolResponses : SolPriceUpdate(resp)

SpecSol == Init /\ [][NextSol]_vars

\* Sessions during which the producer rewrites the feed: candidate Y appears,
\* listed before X, at any moment up to the end of session MaxProducerSession.
ProducedFeeds == { << InitialFeed[3], InitialFeed[2] >>, InitialFeed }

FeedProducer ==
    \E rows \in ProducedFeeds :
        /\ session <= MaxProducerSession
        /\ feed # rows
        /\ RiskDetectorWritesFeed(rows)

NextFeed ==
    \/ MainStartSession
    \/ MainNoCandidate
    \/ MainTraderFinished
    \/ MainListenerFinished
    \/ MainCyclePause
    \/ \E i \in TaskIds : ListenerSubscribe(i)
    \/ \E i \in TaskIds, msg \in OrchMessages : ListenerReceive(i, msg)
    \/ \E i \in TaskIds : ListenerCancelled(i)
    \/ Tick(OrchDelays, OrchAnswers)
    \/ FeedProducer

SpecFeed == Init /\ [][NextFeed]_vars

\* remove_token_from_csv() called on its own, any number of times, on feeds
\* of up to MaxFeedLen rows in which an address can occur more than once.
RowSamples ==
    { InitialFeed[1], InitialFeed[2], InitialFeed[3],
      [InitialFeed[2] EXCEPT !.Name = "ex2"] }

FeedSamples == UNION { [1..n -> RowSamples] : n \in 0..MaxFeedLen }

InitRemove == \E rows \in FeedSamples : InitWith(rows)

RemoveCall(token_address) ==
    /\ feed' = remove_token_from_csv(token_address, feed)
    /\ removed' = Some([address |-> token_address,
                        ok |-> remove_token_from_csv_returns(token_address, feed)])
    /\ UNCHANGED << now, trades_csv, main_pc, tasks, listener_task, trader_task,
                    g_last_known_sol_price, g_last_dex_price_fetch_time,
                    g_current_mint_address, g_token_name, stagnation_timer_start,
                    globals, session, h_tick, h_first_price, h_peak, sniperx,
                    updater, watchdogs >>

NextRemove == \E r \in RowSamples : RemoveCall(r.Address)

SpecRemove == InitRemove /\ [][NextRemove]_vars

\* One session of Monitoring.py next to the main loop of SniperX V2.
NextLease ==
    \/ MainStartSession
    \/ MainNoCandidate
    \/ MainTraderFinished
    \/ MainListenerFinished
    \/ MainCyclePause
    \/ \E i \in TaskIds : ListenerSubscribe(i)
    \/ \E i \in TaskIds, msg \in OrchMessages : ListenerReceive(i, msg)
    \/ \E i \in TaskIds : ListenerCancelled(i)
    \/ Tick(OrchDelays, OrchAnswers)
    \/ SniperXCheck
    \/ SniperXCycleDone
    \/ SniperXWake
    \/ LockFileCreated
    \/ LockFileRemoved

SpecLease == Init /\ [][NextLease]_vars

-----------------------------------------------------------------------------
(* Properties *)

\* The status of the current session in the terms of the specification:
\* Closed is the tick loop having returned.
SessionStatus ==
    IF IsDone(trader_task) THEN "Closed"
    ELSE IF g_trade_status = "bought" THEN "Bought"
    ELSE "Monitoring"

Rank(status) ==
    CASE status = "Monitoring" -> 0
      [] status = "Bought"     -> 1
      [] status = "Closed"     -> 2

\* A step that is a tick of the current session.
TickStep == session' = session /\ h_tick' # h_tick

\* The last row of the ledger is the outcome of the current session.
LastOutcome == trades_csv[Len(trades_csv)]

\* The tick loop tr of ts has returned and the last row of ledger csv gives
\* `reason` for its token.
ClosedWithAt(ts, csv, tr, reason) ==
    /\ tr \in DOMAIN ts
    /\ ts[tr].st = "done"
    /\ csv # << >>
    /\ csv[Len(csv)].reason = reason
    /\ csv[Len(csv)].mint_address = ts[tr].mint

ClosedWith(reason) == ClosedWithAt(tasks, trades_csv, trader_task, reason)

\* C1: within a session the status only moves forward along Monitoring ->
\* Bought -> Closed: a Bought session never returns to Monitoring, and once
\* the session is closed its status no longer changes.
C1_StatusMonotonic ==
    [][ session' = session =>
          /\ Rank(SessionStatus') >= Rank(SessionStatus)
          /\ g_trade_status = "bought" => g_trade_status' = "bought"
          /\ SessionStatus = "Closed" => g_trade_status' = g_trade_status ]_vars

C1_Witness ==
    /\ SessionStatus = "Closed"
    /\ g_trade_status = "bought"
    /\ LastOutcome.reason = "Stop loss"

\* C2: if no price resolves on any tick of a session and more than the
\* no-buy-signal timeout has elapsed at a tick, the session is closed with
\* reason NoBuySignalTimeout and a null sellPrice.
C2_NoPriceTimeoutCloses ==
    ( /\ session >= 1
      /\ h_tick # NoTick
      /\ h_first_price = None
      /\ h_tick.time - g_token_monitor_start_time
            > Sec(NO_BUY_SIGNAL_TIMEOUT_SECONDS) )
    => /\ ClosedWith("No buy signal timeout")
       /\ LastOutcome.sell_price = None

\* C3: a Monitoring session becomes Bought exactly on a tick that is not past
\* the no-buy timeout, resolves a price > baseline * 1.01 and has the volume
\* confirmation; hence on the first such tick and on no earlier one.
C3_BuyOnFirstSignal ==
    [][ (session' = session /\ g_trade_status = "monitoring") =>
          ( g_trade_status' = "bought" <=>
              /\ TickStep
              /\ h_tick'.price # None
              /\ h_tick'.time - g_token_monitor_start_time
                    <= Sec(NO_BUY_SIGNAL_TIMEOUT_SECONDS)
              /\ Val(h_tick'.price) * 100
                    > Val(g_baseline_price_usd') * BUY_SIGNAL_PRICE_INCREASE_PERCENT
              /\ h_tick'.buy_ok ) ]_vars

C3_Witness ==
    /\ SessionStatus = "Bought"
    /\ h_tick.price = g_buy_price_usd
    /\ h_tick.buy_ok
    /\ Val(g_buy_price_usd) * 100
          > Val(g_baseline_price_usd) * BUY_SIGNAL_PRICE_INCREASE_PERCENT

\* The exit conditions of a Bought tick with price p, buy price b, highest
\* price h (after the tick's update) and baseline B.
TakeProfitHolds(p, b) == p * 100 >= b * TAKE_PROFIT_THRESHOLD_PERCENT

StopLossHolds(p, b) == p * 100 <= b * STOP_LOSS_THRESHOLD_PERCENT

TrailingHolds(p, b, h) ==
    /\ h * 100 > b * TRAILING_STOP_ACTIVATION_PERCENT
    /\ p * 100 <= h * TRAILING_STOP_THRESHOLD_PERCENT

StagnationHolds(p, B, time, timer) ==
    /\ p * 100 <= B * STAGNATION_PRICE_THRESHOLD_PERCENT
    /\ timer # None
    /\ time - Val(timer) > Sec(STAGNATION_TIMEOUT_SECONDS)

\* A step that is a tick of a Bought session on which a price resolved.
BoughtTick == TickStep /\ g_trade_status = "bought" /\ h_tick'.price # None

\* C4: on a Bought tick at most one exit fires, the first in the order
\* TakeProfit, StopLoss, TrailingStop, StagnationTimeout whose condition
\* holds; the ledger gets one row with that reason, or none.
C4_ExitPrecedence ==
    [][ BoughtTick =>
          LET p  == Val(h_tick'.price)
              b  == Val(g_buy_price_usd)
              h  == Val(g_highest_price_usd')
              B  == Val(g_baseline_price_usd)
              first ==
                 IF TakeProfitHolds(p, b) THEN Some("Take profit")
                 ELSE IF StopLossHolds(p, b) THEN Some("Stop loss")
                 ELSE IF TrailingHolds(p, b, h) THEN Some("Trailing stop")
                 ELSE IF StagnationHolds(p, B, h_tick'.time, stagnation_timer_start)
                      THEN Some("Stagnation timeout")
                 ELSE None
          IN  /\ h_tick'.reason = first
              /\ IF first = None
                 THEN trades_csv' = trades_csv /\ ~ IsDone(trader_task)'
                 ELSE /\ Len(trades_csv') = Len(trades_csv) + 1
                      /\ ClosedWithAt(tasks', trades_csv', trader_task', Val(first)) ]_vars

\* A tick on which both StopLoss and TrailingStop hold closed with StopLoss.
C4_Witness ==
    /\ ClosedWith("Stop loss")
    /\ h_tick.reason = Some("Stop loss")
    /\ h_tick.price # None
    /\ TrailingHolds(Val(h_tick.price), Val(g_buy_price_usd),
                     Val(g_highest_price_usd))

\* C5: sessions never overlap: at most one listener and one tick loop are
\* alive, they are the tasks main() holds and are bound to the current token,
\* and while main() resets the state and starts the next session (or pauses,
\* or polls) every task of the earlier sessions has terminated.
C5_NoOverlappingSessions ==
    /\ Cardinality(Alive("listener")) <= 1
    /\ Cardinality(Alive("trader")) <= 1
    /\ \A i \in Alive("listener") \cup Alive("trader") :
          /\ i \in { listener_task, trader_task }
          /\ g_current_mint_address = Some(tasks[i].mint)
    /\ main_pc \in { "load", "cycle_pause" } =>
          Alive("listener") \cup Alive("trader") = {}

\* The second session runs, the tasks of the first have terminated.
C5_Witness ==
    /\ session = 2
    /\ Alive("listener") = { listener_task }
    /\ Alive("trader") = { trader_task }
    /\ \A i \in DOMAIN tasks : i < listener_task => tasks[i].st = "done"
    /\ h_tick # NoTick

\* C6: the baseline is assigned on the first tick of the session that resolves
\* a price, with that price, and no later step of the session changes it.
C6_BaselineSetOnce ==
    [][ session' = session =>
          /\ g_baseline_price_usd # None =>
                g_baseline_price_usd' = g_baseline_price_usd
          /\ g_baseline_price_usd = None =>
                g_baseline_price_usd' =
                   IF TickStep THEN h_tick'.price ELSE None
          /\ g_baseline_price_usd' = h_first_price' ]_vars

\* A later tick resolved another price and the baseline is the first one.
C6_Witness ==
    /\ g_baseline_price_usd # None
    /\ h_tick.price # None
    /\ h_tick.price # g_baseline_price_usd
    /\ g_baseline_price_usd = h_first_price

\* C7: while the session is Bought, highestPriceSeen never decreases, and after
\* each Bought tick it is the maximum of the buy price and the prices resolved
\* since the buy.
C7_HighestIsRunningMax ==
    [][ session' = session =>
          /\ g_trade_status = "bought" =>
                Val(g_highest_price_usd') >= Val(g_highest_price_usd)
          /\ g_trade_status' = "bought" =>
                /\ g_highest_price_usd' = h_peak'
                /\ Val(g_highest_price_usd') >= Val(g_buy_price_usd') ]_vars

\* The price fell below an earlier peak that is above the buy price.
C7_Witness ==
    /\ SessionStatus = "Bought"
    /\ Val(g_highest_price_usd) > Val(g_buy_price_usd)
    /\ h_tick.price # None
    /\ Val(h_tick.price) < Val(g_highest_price_usd)
    /\ g_highest_price_usd = h_peak

\* C8: on a Monitoring tick that resolves a price after the no-buy-signal
\* timeout, the session closes with NoBuySignalTimeout and does not become
\* Bought, also when the buy conditions hold on that tick.
C8_TimeoutBeforeBuy ==
    [][ ( /\ TickStep
          /\ g_trade_status = "monitoring"
          /\ h_tick'.price # None
          /\ h_tick'.time - g_token_monitor_start_time
                > Sec(NO_BUY_SIGNAL_TIMEOUT_SECONDS) )
        => /\ g_trade_status' = "monitoring"
           /\ g_buy_price_usd' = None
           /\ h_tick'.reason = Some("No buy signal timeout")
           /\ Len(trades_csv') = Len(trades_csv) + 1
           /\ ClosedWithAt(tasks', trades_csv', trader_task',
                           "No buy signal timeout") ]_vars

\* The session timed out on a tick on which the buy conditions held.
C8_Witness ==
    /\ ClosedWith("No buy signal timeout")
    /\ g_trade_status = "monitoring"
    /\ h_tick.buy_ok
    /\ h_tick.price # None
    /\ Val(h_tick.price) * 100
          > Val(g_baseline_price_usd) * BUY_SIGNAL_PRICE_INCREASE_PERCENT
    /\ LastOutcome.sell_price = h_tick.price

\* C9: on the transition Monitoring -> Bought, buyPrice and highestPriceSeen
\* are both the price of that tick.
C9_BuyRecordsTickPrice ==
    [][ ( /\ session' = session
          /\ g_trade_status = "monitoring"
          /\ g_trade_status' = "bought" )
        => /\ h_tick'.price # None
           /\ g_buy_price_usd' = h_tick'.price
           /\ g_highest_price_usd' = h_tick'.price ]_vars

\* Baseline 1.000, multiplier 1.01: Bought at the sample 1.012.
C9_Witness ==
    /\ SessionStatus = "Bought"
    /\ g_baseline_price_usd = Some(1000)
    /\ g_buy_price_usd = Some(1012)
    /\ g_highest_price_usd = Some(1012)
    /\ h_tick.price = Some(1012)

\* A Bought tick on which neither TakeProfit nor StopLoss fires.
TrailingTick ==
    /\ BoughtTick
    /\ ~ TakeProfitHolds(Val(h_tick'.price), Val(g_buy_price_usd))
    /\ ~ StopLossHolds(Val(h_tick'.price), Val(g_buy_price_usd))

\* C10 as stated: on a Bought tick where neither TakeProfit nor StopLoss
\* fires, TrailingStop fires exactly when highestPriceSeen >= buyPrice * 1.01
\* and price <= highestPriceSeen * 0.80.
C10_TrailingAtActivationLevel ==
    [][ TrailingTick =>
          ( h_tick'.reason = Some("Trailing stop") <=>
              /\ Val(g_highest_price_usd') * 100
                    >= Val(g_buy_price_usd) * TRAILING_STOP_ACTIVATION_PERCENT
              /\ Val(h_tick'.price) * 100
                    <= Val(g_highest_price_usd') * TRAILING_STOP_THRESHOLD_PERCENT )
      ]_vars

\* C10 amended: on a Bought tick where neither TakeProfit nor StopLoss fires,
\* TrailingStop fires exactly when highestPriceSeen > buyPrice * 1.01 (strictly
\* above the activation level) and price <= highestPriceSeen * 0.80.
C10_TrailingAboveActivationLevel ==
    [][ TrailingTick =>
          ( h_tick'.reason = Some("Trailing stop") <=>
              /\ Val(g_highest_price_usd') * 100
                    > Val(g_buy_price_usd) * TRAILING_STOP_ACTIVATION_PERCENT
              /\ Val(h_tick'.price) * 100
                    <= Val(g_highest_price_usd') * TRAILING_STOP_THRESHOLD_PERCENT )
      ]_vars

\* The peak is exactly at the activation level, the price is within the
\* trailing distance, and the session is still Bought.
C10_Witness ==
    /\ SessionStatus = "Bought"
    /\ Val(g_highest_price_usd) * 100
          = Val(g_buy_price_usd) * TRAILING_STOP_ACTIVATION_PERCENT
    /\ h_tick.price # None
    /\ Val(h_tick.price) * 100
          <= Val(g_highest_price_usd) * TRAILING_STOP_THRESHOLD_PERCENT
    /\ h_tick.reason = None


-----------------------------------------------------------------------------
(* The stagnation timer, lines 223 and 327-334 *)

\* Line 327 is reached only by a Bought tick that none of lines 315-326 has
\* closed.  With the thresholds of lines 30-35 the buy price is above
\* 1.01 * baseline (line 301), so a price at or below 0.80 * baseline is at
\* or below 0.80 * buy and the stop loss of line 319 returns first: the timer
\* of line 328 is never started.
StagnationTimerNeverStarted == stagnation_timer_start = None

-----------------------------------------------------------------------------
(* Outcomes of the exits from Bought, lines 315-332 *)

\* C12: the buy price does not change while the session is Bought, every
\* exit from Bought appends one outcome whose buy_price is that buy price and
\* whose sell_price is the price resolved on the closing tick, and a Bought
\* tick closes with TakeProfit exactly when its price >= buyPrice * 1.15
\* (hence on the first such tick).
C12_ExitOutcomePrices ==
    [][ BoughtTick =>
          /\ g_buy_price_usd' = g_buy_price_usd
          /\ ( h_tick'.reason = Some("Take profit") <=>
                 TakeProfitHolds(Val(h_tick'.price), Val(g_buy_price_usd)) )
          /\ h_tick'.reason # None =>
                /\ trades_csv' = Append(trades_csv, trades_csv'[Len(trades_csv')])
                /\ trades_csv'[Len(trades_csv')].buy_price = g_buy_price_usd
                /\ trades_csv'[Len(trades_csv')].sell_price = h_tick'.price
                /\ trades_csv'[Len(trades_csv')].reason = Val(h_tick'.reason) ]_vars

\* Bought at 1.000 and closed by TakeProfit at 1.150.
C12_Witness ==
    /\ ClosedWith("Take profit")
    /\ g_buy_price_usd = Some(1000)
    /\ h_tick.price = Some(1150)
    /\ LastOutcome.buy_price = Some(1000)
    /\ LastOutcome.sell_price = Some(1150)

-----------------------------------------------------------------------------
(* One outcome per session, lines 59-83 and 295-337 *)

\* The rows of the ledger for token m.
OutcomesOf(m) == { k \in DOMAIN trades_csv : trades_csv[k].mint_address = m }

\* C13: a session writes at most one outcome record, whatever error occurs
\* while the outcome is written or reported, and a session whose tick loop
\* has returned has written exactly one.
C13_OneOutcomePerSession ==
    \A i \in DOMAIN tasks :
        tasks[i].kind = "trader" =>
            /\ Cardinality(OutcomesOf(tasks[i].mint)) <= 1
            /\ tasks[i].st = "done" =>
                  Cardinality(OutcomesOf(tasks[i].mint)) = 1

-----------------------------------------------------------------------------
(* Session boundaries, lines 151-158 and 352-358 *)

\* No tick of the current session has run yet.
BeforeFirstTick == session >= 1 /\ h_tick = NoTick

\* C14: when a session starts its start time is the current time, and until
\* its first tick, whatever the previous session did, baseline, buy price and
\* highest price are null, the status is 'monitoring', the stagnation timer is
\* null, the start time is unchanged and every buffered trade is of the new
\* token.
C14_SessionStartsClean ==
    [][ /\ session' # session => g_token_monitor_start_time' = now'
        /\ BeforeFirstTick' =>
              /\ g_baseline_price_usd' = None
              /\ g_buy_price_usd' = None
              /\ g_highest_price_usd' = None
              /\ g_trade_status' = "monitoring"
              /\ stagnation_timer_start' = None
              /\ g_current_mint_address' # None
              /\ \A k \in DOMAIN g_latest_trade_data' :
                    g_latest_trade_data'[k].mint = Val(g_current_mint_address')
              /\ session' = session =>
                    g_token_monitor_start_time' = g_token_monitor_start_time
      ]_vars

\* The second session is about to tick for the first time, with a trade of
\* its token buffered; the first session had bought and was stopped out.
C14_Witness ==
    /\ session = 2
    /\ BeforeFirstTick
    /\ trades_csv # << >>
    /\ trades_csv[1].reason = "Stop loss"
    /\ g_latest_trade_data # << >>
    /\ g_trade_status = "monitoring"
    /\ g_buy_price_usd = None

-----------------------------------------------------------------------------
(* No preemption, lines 344-371 *)

\* C15: while a token is monitored, no step changes the monitored token, the
\* session, its start time or its tasks, whatever appears in the feed; the
\* token is given up only once its tick loop has returned and its listener
\* has terminated, and a session starts only when no token is monitored.
C15_NoPreemption ==
    [][ /\ g_current_mint_address # None =>
              \/ /\ g_current_mint_address' = g_current_mint_address
                 /\ session' = session
                 /\ g_token_monitor_start_time' = g_token_monitor_start_time
                 /\ trader_task' = trader_task
                 /\ listener_task' = listener_task
              \/ /\ g_current_mint_address' = None
                 /\ session' = session
                 /\ IsDone(trader_task)
                 /\ IsDone(listener_task)
        /\ session' # session =>
              /\ g_current_mint_address = None
              /\ Alive("listener") \cup Alive("trader") = {}
      ]_vars

\* X is monitored and has ticked while Y is the first eligible row of the
\* feed.
C15_Witness ==
    /\ g_current_mint_address = Some("X")
    /\ IsTrader(trader_task)
    /\ h_tick # NoTick
    /\ load_token_from_csv(feed) # None
    /\ Val(load_token_from_csv(feed)).address = "Y"

\* Y is monitored after X's session has closed.
C15_WitnessNext ==
    /\ g_current_mint_address = Some("Y")
    /\ trades_csv # << >>
    /\ trades_csv[1].mint_address = "X"

-----------------------------------------------------------------------------
(* Removal from the feed, lines 85-113 *)

\* C16: every call of remove_token_from_csv() returns success, also when the
\* address is not, or no longer, in the feed (a call that finds the address
\* returns True at line 108, so the claim makes every call return True).
C16_RemoveAlwaysSucceeds == removed # None => Val(removed).ok

-----------------------------------------------------------------------------
(* The lock file, lines 339-375 and 1378-1393 *)

\* A monitoring session is active: main() has started its tasks and has not
\* yet given up the token.
SessionActive == g_current_mint_address # None

\* C17: the lock file exists whenever a monitoring session is active, and it
\* does not exist when main() has found no eligible candidate and waits for
\* the next poll.
C17_LeaseHeldWhileActive ==
    /\ SessionActive => monitoring_active_lock
    /\ ( /\ main_pc = "load"
         /\ session >= 1
         /\ load_token_from_csv(feed) = None ) => ~ monitoring_active_lock

\* C19: SniperX V2 starts a processing cycle only from a look at the lock file
\* that finds it absent; a look that finds it goes to sleep for the check
\* interval, and after every sleep, of the check interval, the next thing the
\* loop does is to look at the lock file again.
C19_NoCycleWhileLocked ==
    [][ /\ (sniperx_pc' = "cycle" /\ sniperx_pc # "cycle") =>
              /\ sniperx_pc = "check"
              /\ ~ monitoring_active_lock
        /\ (sniperx_pc = "check" /\ sniperx_pc' # "check"
              /\ monitoring_active_lock) =>
              /\ sniperx_pc' = "paused"
              /\ sniperx_sleep' = check_interval_seconds
        /\ (sniperx_pc \in { "paused", "resting" } /\ sniperx_pc' # sniperx_pc) =>
              /\ sniperx_sleep = check_interval_seconds
              /\ sniperx_pc' = "check"
      ]_vars

\* SniperX V2 pauses on the lock file while Monitoring.py runs a session.
C19_Witness ==
    /\ monitoring_active_lock
    /\ sniperx_pc = "paused"
    /\ sniperx_sleep = check_interval_seconds
    /\ SessionActive
    /\ h_tick # NoTick

-----------------------------------------------------------------------------
(* The trade buffer, lines 208-211 and 151-154 *)

\* C20: while a token is monitored, every trade in the buffer is a trade of
\* that token: the listener drops the messages of any other token, and the
\* trades of the previous token are cleared when the session starts.
C20_BufferHoldsCurrentToken ==
    SessionActive =>
        \A k \in DOMAIN g_latest_trade_data :
            g_latest_trade_data[k].mint = Val(g_current_mint_address)

\* The second session has buffered a trade of its token Y and resolved a
\* price from it, with messages of X and Y on the stream in both sessions.
C20_Witness ==
    /\ session = 2
    /\ g_current_mint_address = Some("Y")
    /\ g_latest_trade_data # << >>
    /\ g_latest_trade_data[Len(g_latest_trade_data)].mint = "Y"
    /\ h_tick.price # None
    /\ h_tick.price = StreamPrice(g_latest_trade_data, g_last_known_sol_price)

-----------------------------------------------------------------------------
(* Malformed trade messages, lines 208-211 and 233-236 *)

WellFormedTrade(trade) ==
    { "tokenAmount_raw", "solAmount_raw" } \cap DOMAIN trade = {}

\* C21: a trade message with an amount that is not a number is dropped: it is
\* never in the trade buffer, so no tick fails to resolve a price because of
\* it.
C21_MalformedTradeDropped ==
    /\ \A k \in DOMAIN g_latest_trade_data :
          WellFormedTrade(g_latest_trade_data[k])
    /\ ~ StreamPriceRaises(g_latest_trade_data)

-----------------------------------------------------------------------------
(* The listener's reconnect loop, lines 203-217 *)

\* C22: a listener that met a connection error sleeps the 5 s backoff and
\* then connects again, unless it is cancelled; a listener ends only by
\* cancellation, and once it has ended it never changes again; the buffer is
\* appended to only by the running, subscribed listener of the session.
C22_ReconnectUntilCancelled ==
    [][ /\ \A i \in DOMAIN tasks :
              tasks[i].kind = "listener" =>
                 /\ tasks[i].st = "done" => tasks'[i] = tasks[i]
                 /\ (tasks'[i].st = "done" /\ tasks[i].st # "done") =>
                       tasks[i].st = "cancelling"
                 /\ (tasks'[i].at = "backoff" /\ tasks[i].at # "backoff") =>
                       /\ tasks[i].st = "running"
                       /\ tasks'[i].st = "running"
                       /\ tasks'[i].wake = now + Sec(RECONNECT_BACKOFF_SECONDS)
                 /\ (tasks[i].at = "backoff" /\ tasks'[i] # tasks[i]) =>
                       \/ /\ tasks'[i].st = "running"
                          /\ tasks'[i].at = "connecting"
                          /\ tasks'[i].reconnects = tasks[i].reconnects + 1
                          /\ now >= tasks[i].wake
                       \/ /\ tasks'[i].st \in { "cancelling", "done" }
                          /\ tasks'[i].at = "backoff"
                 /\ (tasks[i].at = "connecting" /\ tasks'[i].at # "connecting") =>
                       tasks'[i].at \in { "subscribed", "backoff" }
        /\ (session' = session /\ g_latest_trade_data' # g_latest_trade_data) =>
              /\ IsListener(listener_task, "running", {"subscribed"})
              /\ tasks[listener_task].mint = Val(g_current_mint_address)
      ]_vars

\* A listener that lost its connection has connected and subscribed again,
\* and a cancelled listener of an earlier session has ended while in backoff.
C22_Witness ==
    /\ IsListener(listener_task, "running", {"subscribed"})
    /\ tasks[listener_task].reconnects >= 1
    /\ g_latest_trade_data # << >>

-----------------------------------------------------------------------------
(* Errors inside a tick, lines 225-337 *)

\* C23: a tick that raises ends neither the tick loop nor the listener nor
\* the main loop, the loop goes on with a later tick, and a tick loop ends
\* only with a closing outcome or by cancellation.
C23_TickErrorsAreCaught ==
    [][ /\ (session' = session /\ h_tick' # h_tick /\ h_tick'.raised) =>
              /\ tasks' = tasks
              /\ main_pc' = main_pc
              /\ listener_task' = listener_task
              /\ trader_task' = trader_task
        /\ \A i \in DOMAIN tasks :
              (tasks[i].kind = "trader" /\ tasks[i].st # "done"
                                         /\ tasks'[i].st = "done") =>
                 \/ tasks[i].st = "cancelling"
                 \/ /\ h_tick' # h_tick
                    /\ ~ h_tick'.raised
                    /\ h_tick'.reason # None
      ]_vars

\* The tick loop has resolved a price in a tick that came after a tick of the
\* same session that raised.
C23_Witness ==
    /\ h_tick.recovered
    /\ ~ h_tick.raised
    /\ h_tick.price # None
    /\ trader_task \in DOMAIN tasks
    /\ tasks[trader_task].st = "running"

-----------------------------------------------------------------------------
(* The cached SOL/USD price, lines 47 and 160-175 *)

\* C24: the cached SOL/USD price is always a positive number, namely the
\* latest positive price a refresh obtained, or the built-in default when
\* there has been none; failed, empty and zero-valued refreshes leave it as
\* it was.
C24_SolPriceStaysValid ==
    /\ g_last_known_sol_price \in Nat
    /\ g_last_known_sol_price > 0
    /\ g_last_known_sol_price = h_sol.valid

\* The price was refreshed to a quote other than the default, and a later
\* refresh answered zero.
C24_Witness ==
    /\ h_sol.valid # INITIAL_SOL_PRICE
    /\ h_sol.last = Some([kind |-> "ok", usd |-> Some(0)])

-----------------------------------------------------------------------------
(* The result column of trades.csv, lines 59-83 *)

\* C25: every ledger record classifies the result by the sign of the gain:
\* profit when the sell price is above the buy price, loss when it is below,
\* breakeven when the two are equal, and no result and no percentage when the
\* buy price or the sell price is missing.
C25_ResultBySign ==
    \A k \in DOMAIN trades_csv :
        LET row == trades_csv[k]
        IN  IF row.buy_price = None \/ row.sell_price = None
            THEN row.result = "" /\ row.gain_loss_pct = None
            ELSE /\ row.gain_loss_pct # None
                 /\ Val(row.sell_price) > Val(row.buy_price) => row.result = "PROFIT"
                 /\ Val(row.sell_price) < Val(row.buy_price) => row.result = "LOSS"
                 /\ Val(row.sell_price) = Val(row.buy_price) =>
                       row.result \notin { "PROFIT", "LOSS" }

-----------------------------------------------------------------------------
(* Price resolution in a tick, lines 230-243 *)

\* A step that is one iteration of the tick loop in which lines 233-236 did
\* not raise.
ResolvingTick ==
    /\ session' = session
    /\ h_tick' # h_tick
    /\ ~ StreamPriceRaises(g_latest_trade_data)

-----------------------------------------------------------------------------
(* The cooldown of the fallback source, lines 238-243 *)

\* C29: two consecutive queries of the fallback source, in one session or in
\* two, are started at least the cooldown apart, and a query is made only by
\* the one tick loop that is alive, which awaits it before its next tick.
C29_FallbackRateLimited ==
    [][ g_last_dex_price_fetch_time' # g_last_dex_price_fetch_time =>
          /\ g_last_dex_price_fetch_time' = h_tick'.time
          /\ g_last_dex_price_fetch_time' - g_last_dex_price_fetch_time
                >= Sec(DEX_COOLDOWN_SECONDS)
          /\ Alive("trader") = { trader_task }
          /\ tasks[trader_task].st = "running"
      ]_vars

\* A tick of the second session came within the cooldown of the latest query
\* and made none.
C29_Witness ==
    /\ session = 2
    /\ h_tick # NoTick
    /\ g_last_dex_price_fetch_time > 0
    /\ h_tick.time > g_last_dex_price_fetch_time
    /\ h_tick.time - g_last_dex_price_fetch_time <= Sec(DEX_COOLDOWN_SECONDS)

-----------------------------------------------------------------------------
(* A tick without a price, lines 230-247 *)

\* C30: a tick that resolves no price changes none of baseline, buy price,
\* highest price, status, stagnation timer and monitoring start, appends
\* nothing to the ledger and ends no task; it raises nothing when the buffer
\* holds no malformed trade.
C30_UnknownPriceTickIsSkipped ==
    [][ (session' = session /\ h_tick' # h_tick /\ h_tick'.price = None) =>
          /\ g_baseline_price_usd' = g_baseline_price_usd
          /\ g_buy_price_usd' = g_buy_price_usd
          /\ g_highest_price_usd' = g_highest_price_usd
          /\ g_trade_status' = g_trade_status
          /\ stagnation_timer_start' = stagnation_timer_start
          /\ g_token_monitor_start_time' = g_token_monitor_start_time
          /\ trades_csv' = trades_csv
          /\ tasks' = tasks
          /\ main_pc' = main_pc
          /\ ~ StreamPriceRaises(g_latest_trade_data) => ~ h_tick'.raised
      ]_vars

\* A position is open and the latest tick, which did not raise, had no price.
C30_Witness ==
    /\ h_tick # NoTick
    /\ h_tick.price = None
    /\ ~ h_tick.raised
    /\ g_trade_status = "bought"
    /\ g_buy_price_usd # None
    /\ trader_task \in DOMAIN tasks
    /\ tasks[trader_task].st = "running"

-----------------------------------------------------------------------------
(* The session fields, lines 151-157 and 301-313 *)

\* C31: while a session is active, status 'monitoring' implies that buy price
\* and highest price are None, and status 'bought' implies that baseline and
\* buy price are set, that the buy price is above baseline * 1.01 and that
\* the highest price is at least the buy price.
C31_SessionFieldsConsistent ==
    SessionActive =>
       /\ g_trade_status \in { "monitoring", "bought" }
       /\ g_trade_status = "monitoring" =>
             /\ g_buy_price_usd = None
             /\ g_highest_price_usd = None
       /\ g_trade_status = "bought" =>
             /\ g_baseline_price_usd # None
             /\ g_buy_price_usd # None
             /\ g_highest_price_usd # None
             /\ BuyPriceCond(Val(g_buy_price_usd), Val(g_baseline_price_usd))
             /\ Val(g_highest_price_usd) >= Val(g_buy_price_usd)

\* The second session has bought after the first one had bought and closed.
C31_Witness ==
    /\ session = 2
    /\ SessionActive
    /\ g_trade_status = "bought"
    /\ trades_csv # << >>
    /\ trades_csv[1].buy_price # None

-----------------------------------------------------------------------------
(* Reachability of the close reasons, lines 29-44 and 312-334 *)

\* Prices on which the exit thresholds are compared: the prices the sources
\* deliver and a grid of small ones.
PriceGrid == Prices \cup 0..MaxGridPrice

\* C32: each of the five close reasons can be reached with the shipped
\* thresholds.  For 'Stagnation timeout' a Bought tick has to reach line 327
\* with the stagnation condition true: for the baseline of the session there
\* must be a buy price that was a buy signal on it, a highest price and a
\* tick price such that lines 315-326 return with no exit and
\* price <= baseline * 0.80.
C32_StagnationExitReachable ==
    (SessionActive /\ g_baseline_price_usd # None) =>
       \E buy \in PriceGrid, highest \in PriceGrid, price \in PriceGrid :
           /\ BuyPriceCond(buy, Val(g_baseline_price_usd))
           /\ highest >= buy
           /\ ~ TakeProfitCond(price, buy)
           /\ ~ StopLossCond(price, buy)
           /\ ~ TrailingStopCond(price, buy, NewHighest(price, highest))
           /\ StagnationCond(price, Val(g_baseline_price_usd))

\* No session closes with 'Stagnation timeout'.
NoStagnationOutcome ==
    \A k \in DOMAIN trades_csv : trades_csv[k].reason # "Stagnation timeout"

-----------------------------------------------------------------------------
(* The tick of the buy, lines 295-313 *)

ExitReasons == { "Take profit", "Stop loss", "Trailing stop", "Stagnation timeout" }

\* C33: the tick on which a session becomes Bought closes nothing: it leaves
\* the tick loop running and the ledger as it was; a tick that closes with an
\* exit reason started in status 'bought', so it is later than the buy tick.
C33_NoExitOnBuyTick ==
    [][ /\ (g_trade_status = "monitoring" /\ g_trade_status' = "bought") =>
              /\ h_tick'.reason = None
              /\ trades_csv' = trades_csv
              /\ tasks' = tasks
              /\ h_tick'.price = g_buy_price_usd'
        /\ \A k \in DOMAIN trades_csv' :
              (k \notin DOMAIN trades_csv /\ trades_csv'[k].reason \in ExitReasons) =>
                 /\ g_trade_status = "bought"
                 /\ g_buy_price_usd # None
                 /\ trades_csv'[k].buy_price = g_buy_price_usd
      ]_vars

\* A session bought on one tick and was closed by the stop loss on a later one.
C33_Witness ==
    /\ ClosedWith("Stop loss")
    /\ trades_csv[Len(trades_csv)].buy_price # None
    /\ h_tick.price # g_buy_price_usd

-----------------------------------------------------------------------------
(* The price band of a Bought session, lines 312-322 *)

\* C34: after every tick that resolves a price p and leaves the session
\* Bought, buyPrice * 0.80 < p < buyPrice * 1.15; hence the highest price is
\* below buyPrice * 1.15 in every Bought state.
C34_BoughtPriceInsideBand ==
    [][ /\ (TickStep /\ h_tick'.price # None /\ SessionStatus' = "Bought") =>
              /\ ~ StopLossHolds(Val(h_tick'.price), Val(g_buy_price_usd'))
              /\ ~ TakeProfitHolds(Val(h_tick'.price), Val(g_buy_price_usd'))
        /\ SessionStatus' = "Bought" =>
              ~ TakeProfitHolds(Val(g_highest_price_usd'), Val(g_buy_price_usd'))
      ]_vars

\* A Bought session whose latest tick came close to neither threshold twice:
\* the price rose above the buy price and fell back below it.
C34_InsideBandReached ==
    /\ SessionStatus = "Bought"
    /\ h_tick.price # None
    /\ Val(h_tick.price) < Val(g_buy_price_usd)
    /\ Val(g_highest_price_usd) > Val(g_buy_price_usd)

-----------------------------------------------------------------------------
(* The closed token leaves the feed, lines 344-375 *)

HasAddress(rows, token_address) ==
    \E k \in DOMAIN rows : rows[k].Address = token_address

-----------------------------------------------------------------------------
(* What remove_token_from_csv leaves in the file, lines 85-113 *)

\* The rows of a file without those of one address, in their order.
RowsWithout(rows, token_address) ==
    SelectSeq(rows, LAMBDA r : r.Address # token_address)

\* C36: a call remove_token_from_csv(X) removes exactly the rows whose
\* Address is X: all other rows, also those that share an Address with one
\* another, stay in the file in their order, and a call for an absent X
\* leaves the file as it was.
C36_RemovesExactlyTheToken ==
    [][ removed' # None =>
          feed' = RowsWithout(feed, Val(removed').address) ]_vars

-----------------------------------------------------------------------------
(* The cluster-summary watchdog, run_riskdetector_on_cluster_change.py *)

cooldown_seconds == 5

\* time.time() at the model's time zero, in half seconds: the epoch lies more
\* than a cooldown before the watchdogs start.
EpochOffset == 100

MaxClusterLines == 3
MaxQueued == 2
MaxChildren == 3
MaxWatchTime == 21

time_time == now + EpochOffset

\* Lines 62-69: the number of lines, 0 when the file cannot be opened.
current_line_count(lines) == lines

\* The wall clock advances by a second.
WatchdogClock ==
    /\ now + Sec(1) <= MaxWatchTime
    /\ now' = now + Sec(1)
    /\ UNCHANGED << feed, trades_csv, main_pc, tasks, listener_task,
                    trader_task, g_last_known_sol_price,
                    g_last_dex_price_fetch_time, g_current_mint_address,
                    g_token_name, stagnation_timer_start, globals, hist,
                    updater, sniperx, watchdogs >>

\* test_chrome.py, lines 519-529: one summary row is appended, after the header
\* row when the file is missing or empty; the observer queues an on_modified.
ClusterAppend ==
    /\ cluster_summaries_csv < MaxClusterLines
    /\ cluster_events < MaxQueued
    /\ cluster_summaries_csv' = IF cluster_summaries_csv = 0
                                THEN 2
                                ELSE cluster_summaries_csv + 1
    /\ cluster_events' = cluster_events + 1
    /\ h_cluster_event' = [h_cluster_event EXCEPT !.unseen = TRUE]
    /\ UNCHANGED << cluster_handler, risk_detector_pid, risk_detectors,
                    monitoring, sniperx, results_watchdog >>

\* A risk detector the watchdog started ends. cleaned: it got as far as
\* risk_detector.py lines 344-347 and removed cluster_summaries.csv, which
\* queues no on_modified; the returns of lines 178-197 end it before that.
RiskDetectorFinishes(pid, cleaned) ==
    /\ pid \in risk_detectors.alive
    /\ risk_detectors' = [risk_detectors EXCEPT !.alive = @ \ {pid}]
    /\ IF cleaned /\ cluster_summaries_csv # 0
       THEN /\ cluster_summaries_csv' = 0
            /\ h_cluster_event' = [h_cluster_event EXCEPT !.unseen = FALSE]
       ELSE UNCHANGED << cluster_summaries_csv, h_cluster_event >>
    /\ UNCHANGED << cluster_events, cluster_handler, risk_detector_pid,
                    monitoring, sniperx, results_watchdog >>

\* ClusterCSVChangeHandler.on_modified, lines 71-116, for an event of
\* cluster_summaries.csv. popen_ok: the target script exists and Popen and
\* the write of the PID file succeed (lines 98-116).
ClusterOnModified(popen_ok) ==
    /\ cluster_events > 0
    /\ risk_detectors.started < MaxChildren
    /\ cluster_events' = cluster_events - 1
    /\ LET current_count == current_line_count(cluster_summaries_csv)
           running == cluster_handler.running_process
           polls_none == running # None /\ Val(running) \in risk_detectors.alive
           current_time == time_time
           in_cooldown == current_time - cluster_handler.last_launch_time
                              < Sec(cooldown_seconds)
           pid == risk_detectors.started + 1
       IN  IF current_count <= cluster_handler.last_line_count
           THEN \* lines 78-79
                /\ h_cluster_event' = [unseen |-> FALSE,
                                       outcome |-> "not_grown",
                                       terminated |-> FALSE]
                /\ UNCHANGED << cluster_handler, risk_detector_pid,
                                risk_detectors >>
           ELSE /\ h_cluster_event' =
                       [unseen |-> FALSE,
                        outcome |-> IF in_cooldown THEN "cooldown"
                                    ELSE IF popen_ok THEN "launched"
                                    ELSE "launch_failed",
                        terminated |-> polls_none]
                /\ cluster_handler' =
                       [last_line_count |-> current_count,
                        running_process |->
                            IF ~in_cooldown /\ popen_ok THEN Some(pid)
                            ELSE IF polls_none THEN None
                            ELSE running,
                        last_launch_time |->
                            IF in_cooldown
                            THEN cluster_handler.last_launch_time
                            ELSE current_time]
                /\ risk_detectors' =
                       [started |-> IF ~in_cooldown /\ popen_ok
                                    THEN pid
                                    ELSE risk_detectors.started,
                        alive   |-> (IF polls_none
                                     THEN risk_detectors.alive \ {Val(running)}
                                     ELSE risk_detectors.alive)
                                    \cup (IF ~in_cooldown /\ popen_ok
                                          THEN {pid}
                                          ELSE {})]
                /\ risk_detector_pid' =
                       IF ~in_cooldown /\ popen_ok THEN Some(pid)
                       ELSE IF polls_none THEN None
                       ELSE risk_detector_pid
    /\ UNCHANGED << cluster_summaries_csv, monitoring, sniperx,
                    results_watchdog >>

NextClusterWatch ==
    \/ WatchdogClock
    \/ ClusterAppend
    \/ \E pid \in 1..MaxChildren, cleaned \in BOOLEAN :
           RiskDetectorFinishes(pid, cleaned)
    \/ \E popen_ok \in BOOLEAN : ClusterOnModified(popen_ok)

SpecClusterWatch == Init /\ [][NextClusterWatch]_vars

\* C37: an on_modified the cluster watchdog handles while the file holds
\* lines appended since the latest handled event, also lines appended after
\* the file was removed, is not dropped by the comparison of line counts.
C37_AppendedLinesAreNotIgnored ==
    [][ (cluster_events' < cluster_events /\ h_cluster_event.unseen)
            => h_cluster_event'.outcome # "not_grown" ]_vars

-----------------------------------------------------------------------------
(* The results-CSV watchdog, run_testchrone_on_csv_change.py *)

CSVChangeHandler_cooldown_seconds == 5

\* What the Popen.poll() of line 165 reports: the child is still running.
PollIsNone(running, alive) == running # None /\ Val(running) \in alive

\* Variant: the previous child is left running.
TerminateLeavesChild(alive, pid) == alive

\* _terminate_pid, lines 41-116: the signal ends the child, test_chrome.py
\* installs no handler for it.
terminate_pid(alive, pid) == alive \ {pid}

\* SniperX V2 rewrites sniperx_results_1m.csv; the observer queues an
\* on_modified.
ResultsWrite ==
    /\ csv_events < MaxQueued
    /\ sniperx_results_csv' = Some(time_time)
    /\ csv_events' = csv_events + 1
    /\ UNCHANGED << csv_handler, test_chrome_pid, test_chromes, h_csv_event,
                    monitoring, sniperx, cluster_watchdog >>

\* risk_detector.py, lines 340-341: the processed file is removed.
ResultsRemove ==
    /\ sniperx_results_csv # None
    /\ sniperx_results_csv' = None
    /\ UNCHANGED << csv_events, csv_handler, test_chrome_pid, test_chromes,
                    h_csv_event, monitoring, sniperx, cluster_watchdog >>

\* A test_chrome.py the watchdog started ends by itself.
TestChromeExits(pid) ==
    /\ pid \in test_chromes.alive
    /\ test_chromes' = [test_chromes EXCEPT !.alive = @ \ {pid}]
    /\ UNCHANGED << sniperx_results_csv, csv_events, csv_handler,
                    test_chrome_pid, h_csv_event, monitoring, sniperx,
                    cluster_watchdog >>

LaunchOutcomes == {"ok", "no_target", "popen_fails"}

\* CSVChangeHandler.on_modified, lines 132-219, for an event of
\* sniperx_results_1m.csv. launch: whether test_chrome.py exists (line 161)
\* and whether the block of lines 190-217 raises before the child is created.
CsvOnModified(launch) ==
    /\ csv_events > 0
    /\ test_chromes.started < MaxChildren
    /\ csv_events' = csv_events - 1
    /\ LET running == csv_handler.running_process
           polls_none == PollIsNone(running, test_chromes.alive)
           current_time == time_time
           in_cooldown == current_time - csv_handler.last_launch_time
                              < Sec(CSVChangeHandler_cooldown_seconds)
           pid == test_chromes.started + 1
       IN  IF sniperx_results_csv = None
           THEN \* lines 144-147
                /\ csv_handler' = [csv_handler EXCEPT !.last_mtime = 0]
                /\ h_csv_event' = [outcome |-> "deleted", terminated |-> FALSE]
                /\ UNCHANGED << test_chrome_pid, test_chromes >>
           ELSE IF Val(sniperx_results_csv) = csv_handler.last_mtime
           THEN \* lines 149-151
                /\ h_csv_event' = [outcome |-> "unchanged",
                                   terminated |-> FALSE]
                /\ UNCHANGED << csv_handler, test_chrome_pid, test_chromes >>
           ELSE IF in_cooldown \/ launch = "no_target"
           THEN \* lines 153-163
                /\ csv_handler' = [csv_handler EXCEPT
                                       !.last_mtime = Val(sniperx_results_csv)]
                /\ h_csv_event' = [outcome |-> IF in_cooldown THEN "cooldown"
                                               ELSE "no_target",
                                   terminated |-> FALSE]
                /\ UNCHANGED << test_chrome_pid, test_chromes >>
           ELSE \* lines 165-219
                /\ h_csv_event' = [outcome |-> IF launch = "ok" THEN "launched"
                                               ELSE "launch_failed",
                                   terminated |-> polls_none]
                /\ csv_handler' =
                       [last_mtime |-> Val(sniperx_results_csv),
                        running_process |->
                            IF launch = "ok" THEN Some(pid)
                            ELSE IF polls_none THEN None
                            ELSE running,
                        last_launch_time |->
                            IF launch = "ok" THEN current_time
                            ELSE csv_handler.last_launch_time]
                /\ test_chromes' =
                       [started |-> IF launch = "ok" THEN pid
                                    ELSE test_chromes.started,
                        alive   |-> (IF polls_none
                                     THEN terminate_pid(test_chromes.alive,
                                                        Val(running))
                                     ELSE test_chromes.alive)
                                    \cup (IF launch = "ok" THEN {pid} ELSE {})]
                /\ test_chrome_pid' =
                       IF launch = "ok" THEN Some(pid)
                       ELSE IF polls_none THEN None
                       ELSE test_chrome_pid
    /\ UNCHANGED << sniperx_results_csv, monitoring, sniperx,
                    cluster_watchdog >>

NextResultsWatch ==
    \/ WatchdogClock
    \/ ResultsWrite
    \/ ResultsRemove
    \/ \E pid \in 1..MaxChildren : TestChromeExits(pid)
    \/ \E launch \in LaunchOutcomes : CsvOnModified(launch)

SpecResultsWatch == Init /\ [][NextResultsWatch]_vars

=============================================================================
